---- MODULE Spec2Model ----
(***************************************************************************)
(* Hearaway: the audio provider (src/components/AudioProvider.tsx), the    *)
(* launch overlay that starts it, the playback controller it drives, the   *)
(* composer of sound layers (src/lib/soundMapping.ts, audioUtils.ts) and   *)
(* the page that fetches the weather (src/app/page.tsx).                   *)
(*                                                                         *)
(* Units: volumes are percentages (0.9 is 90), frequencies are Hz, layer   *)
(* volumes and gains are steps of the gain ramp (MaxGain is full scale).   *)
(* The controller module (@/lib/audioController) is not among the source   *)
(* files; its definitions follow sections 3, 4.2 and 5 of the              *)
(* specification.                                                          *)
(***************************************************************************)
EXTENDS Integers, FiniteSets, Sequences, TLC

(***************************************************************************)
(* Bounds and input sets                                                   *)
(***************************************************************************)
\* Full scale of a layer's gain ramp, in ramp steps.
MaxGain == 2

\* Arguments given to setVolume, in percent; two of them are out of range.
VolumeArgs == {-50, 0, 70, 150}

\* Arguments given to setInsideFilterFrequency, in Hz: two of the slider
\* stops of InsideModeToggle and one value on each side of the 200..2000
\* range.
FrequencyArgs == {100, 600, 1500, 5000}

\* Positions of the filter slider (0..100 in steps of 0.1), in hundredths.
SliderPositions == {0, 1670, 10000}

\* Biomes carried by the weather data handed to updateSoundscape.
Biomes == {"forest", "ocean"}

\* useState(0.9) and useState(600)
DefaultVolume == 90
DefaultFilterFrequency == 600

NULL == "null"

(***************************************************************************)
(* State                                                                   *)
(***************************************************************************)
VARIABLES
  \* AudioProvider: React state
  isReady, isMuted, volume, isLoading, currentBiome, hasInteracted,
  isInsideMode, insideFilterFrequency,
  \* AudioProvider: refs, the pending initialize() closure, its promise
  initializationPromiseRef, initClosure, initPromise,
  \* the number of controller.initialize() calls awaited and not yet settled
  ctlInitializing,
  \* a further initialize() call was handed the promise that is pending
  joinedPending,
  \* localStorage keys hearaway_inside_mode / hearaway_filter_frequency
  localStorage,
  \* the mount effect that loads the saved preferences has run
  mounted,
  \* AudioLaunchOverlay: error message state
  error,
  \* controller: output bus
  ctlInitialized, masterVolume, ctlMuted, ctlInsideMode, ctlFilterFrequency,
  \* controller: per-soundId layer state
  target, phase, gain,
  \* observer of the call sequence setVolume, toggleMute, toggleMute
  probe,
  \* getSoundLayers: the arguments of a call, the draws it made, what it
  \* computed and returned
  composer,
  \* a call of mapWeatherToIntensity or calculateWindVolume on its own
  utility,
  \* Home (page.tsx): React state, refreshIntervalRef
  weatherData, pageIsLoading, pageError, refreshIntervalRef,
  \* weather requests: how many were issued, which are awaiting a response
  issued, inFlight,
  \* the dependencies the effects of Home last ran with
  effectDeps,
  \* the weatherData last handed to controller.updateSoundscape
  forwardedWeather

providerVars == <<isReady, isMuted, volume, isLoading, currentBiome,
                  hasInteracted, isInsideMode, insideFilterFrequency>>
initVars == <<initializationPromiseRef, initClosure, initPromise,
              ctlInitializing, joinedPending>>
busVars == <<ctlInitialized, masterVolume, ctlMuted, ctlInsideMode,
             ctlFilterFrequency>>
layerVars == <<target, phase, gain>>
composerVars == <<composer, utility>>
pageVars == <<weatherData, pageIsLoading, pageError, refreshIntervalRef,
              issued, inFlight, effectDeps, forwardedWeather>>
vars == <<providerVars, initVars, localStorage, mounted, error, busVars,
          layerVars, probe, composerVars, pageVars>>

\* Sound ids of the layers in a snapshot (keys of SOUND_PATH_MAP).
SoundIds == {"rain_light", "wind_autumn", "birds_far"}

\* Target volumes a layer can have, in ramp steps; 0 stands for "not in the
\* snapshot".
LayerVolumes == {1, MaxGain}
Snapshots == [SoundIds -> {0} \cup LayerVolumes]

\* "dropped": the sound is wanted but its asset could not be loaded.
Phases == {"absent", "loading", "fadingIn", "steady", "fadingOut", "dropped"}

NoProbe == [stage |-> 0, vol |-> 0, wasMuted |-> FALSE]

\* The closure variables of an initialize() call that is not running.
NoClosure == [volume |-> 0, isInsideMode |-> FALSE, insideFilterFrequency |-> 0]

(***************************************************************************)
(* Pure helpers                                                            *)
(***************************************************************************)
Min(a, b) == IF a < b THEN a ELSE b
Max(a, b) == IF a > b THEN a ELSE b

\* Mutant of ClampVolume: the upper bound is forgotten.
ClampVolumeNoUpperBound(newVolume) == Max(0, newVolume)

\* Math.max(0, Math.min(1, newVolume)), in percent
ClampVolume(newVolume) == Max(0, Min(100, newVolume))

\* InsideModeToggle: slider positions (in hundredths) and their frequencies
frequencyStops ==
  <<[position |-> 0, frequency |-> 2000],
    [position |-> 3333, frequency |-> 1500],
    [position |-> 6666, frequency |-> 1000],
    [position |-> 10000, frequency |-> 600]>>

\* Every frequency the model handles.
Frequencies ==
  FrequencyArgs \cup {frequencyStops[i].frequency : i \in DOMAIN frequencyStops}

Abs(x) == IF x < 0 THEN -x ELSE x

\* frequencyStops.reduce(...): the stop nearest to the slider position, the
\* earlier stop on a tie.
RECURSIVE NearestFrom(_, _, _)
NearestFrom(prev, i, sliderPosition) ==
  IF i > Len(frequencyStops) THEN prev
  ELSE LET curr == frequencyStops[i]
       IN NearestFrom(IF Abs(curr.position - sliderPosition)
                           < Abs(prev.position - sliderPosition)
                        THEN curr ELSE prev,
                      i + 1, sliderPosition)

NearestStop(sliderPosition) == NearestFrom(frequencyStops[1], 2, sliderPosition)

\* JSON.stringify and JSON.parse on the two kinds of value the provider
\* persists: a boolean and a number.
StringifyBoolean(b) == IF b THEN "true" ELSE "false"
ParseBoolean(s) == s = "true"
StringifyNumber(n) == ToString(n)
ParseNumber(s) == CHOOSE n \in Frequencies : ToString(n) = s

\* What setInsideFilterFrequency stores, persists and forwards for an
\* argument: the argument itself.
StoredFrequency(frequency) == frequency

\* The level that reaches the listener: the master volume, or silence when
\* muted.
AudibleOutput == IF ctlMuted THEN 0 ELSE masterVolume

(***************************************************************************)
(* audioUtils.ts and soundMapping.ts: the composer                         *)
(*                                                                         *)
(* Units: wind speeds are tenths of a kph (25 kph is 250); Math.random()   *)
(* results, weather intensities and the wind volume are thousandths (0.35  *)
(* is 350); layer volumes are millionths (0.55 is 550000), so that the     *)
(* product of an intensity and a coefficient in thousandths is a layer     *)
(* volume.  The arithmetic is exact; floating-point rounding is not        *)
(* modelled.                                                               *)
(***************************************************************************)
\* SOUND_PATH_MAP: each registered sound id with the directory and the file
\* of its path.
SOUND_PATH_MAP ==
  {<<"birds_far", "animals", "animals-birds-far-01.ogg">>,
   <<"birds-forest_light_far", "animals", "animals-birds-forest-light-far-01.ogg">>,
   <<"frogs_close", "animals", "animals-frogs-close-01.ogg">>,
   <<"wind-light_birds_medium", "animals", "animals-wind-light-birds-medium-01.ogg">>,
   <<"cicada_heavy", "animals", "animals-cicada-heavy-01.ogg">>,
   <<"wind-leaves_rustling-light_birds_light", "animals", "animals-wind-leaves-rustling-light-birds-light-01.ogg">>,
   <<"wind-leaves_rustling-light_birds_light-2", "animals", "animals-wind-leaves-rustling-light-birds-light-02.ogg">>,
   <<"wind-leaves_rustling-light_birds_light-3", "animals", "animals-wind-leaves-rustling-light-birds-light-03.ogg">>,
   <<"wind-leaves_rustling-light_birds_medium", "animals", "animals-wind-leaves-rustling-light-birds-medium-01.ogg">>,
   <<"cars-passing_low_far", "city", "city-cars-passing-low-far-01.ogg">>,
   <<"cars-passing_medium_close", "city", "city-cars-passing-medium-close-01.ogg">>,
   <<"chatter-footsteps_medium", "city", "city-chatter-footsteps-medium-01.ogg">>,
   <<"church-bells_medium_far", "city", "city-church-bells-medium-far-01.ogg">>,
   <<"rain-wind-city-traffic_medium_far", "city", "city-rain-wind-city-traffic-medium-far-01.ogg">>,
   <<"traffic_medium_close", "city", "city-traffic-medium-close-01.ogg">>,
   <<"traffic_medium_far", "city", "city-traffic-medium-far-01.ogg">>,
   <<"plane_overhead-light", "city", "city-plane-overhead-light-01.ogg">>,
   <<"desert-wind_light", "desert", "desert-wind-light-01.ogg">>,
   <<"desert-cricket_heavy_close", "desert", "desert-cricket-heavy-close.ogg">>,
   <<"desert-birds_bugs_light", "desert", "desert-birds-medium-bugs-light.ogg">>,
   <<"thunder_light_far", "thunder", "thunder-light-far-01.ogg">>,
   <<"thunder_medium_close", "thunder", "thunder-medium-close-01.ogg">>,
   <<"thunder_light_far_rain_medium", "thunder", "thunder-light-far-rain-medium-01.ogg">>,
   <<"thunder_rolling_light_far", "thunder", "thunder-rolling-light-far-rain-light-01.ogg">>,
   <<"drops-bucket-collecting-drips_light_close", "water", "water-drops-bucket-collecting-drips-light-close-01.ogg">>,
   <<"rain_light", "water", "water-rain-light-01.ogg">>,
   <<"rain_medium", "water", "water-rain-medium-01.ogg">>,
   <<"rain_medium_close", "water", "water-rain-medium-close-01.ogg">>,
   <<"stream_light_close", "water", "water-stream-light-close-01.ogg">>,
   <<"stream_medium", "water", "water-stream-medium-01.ogg">>,
   <<"waterfall_light", "water", "water-waterfall-light-01.ogg">>,
   <<"waterfall_medium", "water", "water-waterfall-medium-01.ogg">>,
   <<"waves_light_close", "water", "water-waves-light-close-01.ogg">>,
   <<"waves_light_far", "water", "water-waves-light-far-01.ogg">>,
   <<"waves_medium_close", "water", "water-waves-medium-close-01.ogg">>,
   <<"waves_medium_close_2", "water", "water-waves-medium-close-02.ogg">>,
   <<"waves_medium_far", "water", "water-waves-medium-far-01.ogg">>,
   <<"waves_small_close", "water", "water-waves-small-close-01.ogg">>,
   <<"wind-leaves_rustling-medium_rain_light", "water", "water-wind-leaves-rustling-medium-rain-light-01.ogg">>,
   <<"wind-leaves_rustling-medium_rain_medium", "water", "water-wind-leaves-rustling-medium-rain-medium-01.ogg">>,
   <<"wind_autumn", "wind", "wind-autumn-01.ogg">>,
   <<"wind_coastal_birds", "wind", "wind-coastal-birds-01.ogg">>,
   <<"wind_coastal_medium_far", "wind", "wind-coastal-medium-far-01.ogg">>,
   <<"wind_field_strong", "wind", "wind-field-strong-01.ogg">>,
   <<"wind_forest_medium", "wind", "wind-forest-medium-01.ogg">>,
   <<"wind_grass_strong", "wind", "wind-grass-strong-01.ogg">>,
   <<"wind-leaves_rustling-heavy", "wind", "wind-leaves-rustling-heavy-01.ogg">>,
   <<"wind-leaves_rustling-heavy-2", "wind", "wind-leaves-rustling-heavy-02.ogg">>,
   <<"wind-leaves_rustling-heavy-3", "wind", "wind-leaves-rustling-heavy-03.ogg">>,
   <<"wind-leaves_rustling-heavy_storm", "wind", "wind-leaves-rustling-heavy-storm-01.ogg">>,
   <<"wind-leaves_rustling-medium", "wind", "wind-leaves-rustling-medium-01.ogg">>,
   <<"fan_close", "other", "other-fan-close-01.ogg">>,
   <<"windchimes_close", "other", "other-windchimes-close-01.ogg">>}

\* soundExists(soundId)
soundExists(soundId) == \E entry \in SOUND_PATH_MAP : entry[1] = soundId

\* getAudioPath(soundId): the path of a registered id, as its directory
\* and file under /audio; an Error for any other id.
getAudioPath(soundId) ==
  IF \E entry \in SOUND_PATH_MAP : entry[1] = soundId
    THEN LET pathWithExtension ==
               CHOOSE entry \in SOUND_PATH_MAP : entry[1] = soundId
         IN [thrown |-> NULL, directory |-> pathWithExtension[2],
             file |-> pathWithExtension[3]]
    ELSE [thrown |-> "Unknown sound ID", directory |-> NULL, file |-> NULL]

\* The category directory of getAudioPath(soundId), for a registered id.
AssetDirectory(soundId) ==
  (CHOOSE entry \in SOUND_PATH_MAP : entry[1] = soundId)[2]

\* BiomeType: the cases of the switch in getSoundLayers.
KnownBiomes == {"city", "forest", "field", "beach", "lake", "ocean", "desert"}

\* Biomes given to getSoundLayers; "tundra" is not a BiomeType.
BiomeArgs == KnownBiomes \cup {"tundra"}

\* TimeOfDay
TimesOfDay == {"day", "evening", "night"}

\* WMO weather codes
WeatherCodes == 0..99

\* Wind speeds given to getSoundLayers, in tenths of a kph: 5 kph, the
\* thresholds of the biome functions (17.5 kph is windVolume 0.35, 20 and
\* 25 kph) with the next tenth above each, and a storm.
WindSpeedArgs == {50, 175, 176, 200, 201, 250, 251, 1500}

\* Wind speeds given to calculateWindVolume on its own: every tenth of a kph
\* from 0 to MaxWindSpeed.
MaxWindSpeed == 700
WindSpeedRange == 0..MaxWindSpeed

\* Humidity percentages given to getSoundLayers.
HumidityArgs == {50, 80}

\* Results of Math.random(), in thousandths: one on each side of the 0.3
\* of the inclusion probabilities.
RandomDraws == {299, 300}

BIRD_SOUND_PROBABILITY == 300
CRICKET_SOUND_PROBABILITY == 300
FROG_SOUND_PROBABILITY == 300

\* shouldIncludeBirds/Crickets/Frogs, given the result of Math.random()
shouldIncludeBirds(random) == random < BIRD_SOUND_PROBABILITY
shouldIncludeCrickets(random) == random < CRICKET_SOUND_PROBABILITY
shouldIncludeFrogs(random) == random < FROG_SOUND_PROBABILITY

\* The intensity mapWeatherToIntensity starts from.
NoIntensity ==
  [rain |-> 0, thunder |-> 0, snow |-> FALSE, fog |-> FALSE,
   hasPrecipitation |-> FALSE]

\* The conditional expressions of mapWeatherToIntensity that grade a code
\* within its range: drizzle (51-57), rain (61-67), showers (80-82) and the
\* thunder of a thunderstorm (95-99).
\* Mutant of drizzleRain: the two heavier grades are swapped.
drizzleRainSwapped(weatherCode) ==
  IF weatherCode <= 53 THEN 200 ELSE IF weatherCode <= 55 THEN 500 ELSE 350

drizzleRain(weatherCode) ==
  IF weatherCode <= 53 THEN 200 ELSE IF weatherCode <= 55 THEN 350 ELSE 500

\* Mutant of rainRain: the breakpoints 63 and 65 are exclusive.
rainRainExclusive(weatherCode) ==
  IF weatherCode < 63 THEN 400 ELSE IF weatherCode < 65 THEN 700 ELSE 900

rainRain(weatherCode) ==
  IF weatherCode <= 63 THEN 400 ELSE IF weatherCode <= 65 THEN 700 ELSE 900

\* Mutant of showerRain: slight showers carry no rain.
showerRainSlightDry(weatherCode) ==
  IF weatherCode = 80 THEN 0 ELSE IF weatherCode = 81 THEN 750 ELSE 1000

showerRain(weatherCode) ==
  IF weatherCode = 80 THEN 500 ELSE IF weatherCode = 81 THEN 750 ELSE 1000

thunderstormThunder(weatherCode) ==
  IF weatherCode = 95 THEN 600 ELSE IF weatherCode = 96 THEN 800 ELSE 1000

\* mapWeatherToIntensity(weatherCode): the six if statements in order, each
\* updating the intensity the previous ones left.
mapWeatherToIntensity(weatherCode) ==
  LET fogged ==
        IF weatherCode = 45 \/ weatherCode = 48
          THEN [NoIntensity EXCEPT !.fog = TRUE]
          ELSE NoIntensity
      drizzle ==
        IF weatherCode >= 51 /\ weatherCode <= 57
          THEN [fogged EXCEPT
                  !.rain = drizzleRain(weatherCode),
                  !.hasPrecipitation = TRUE]
          ELSE fogged
      rain ==
        IF weatherCode >= 61 /\ weatherCode <= 67
          THEN [drizzle EXCEPT
                  !.rain = rainRain(weatherCode),
                  !.hasPrecipitation = TRUE]
          ELSE drizzle
      snow ==
        IF (weatherCode >= 71 /\ weatherCode <= 77)
             \/ weatherCode = 85 \/ weatherCode = 86
          THEN [rain EXCEPT !.snow = TRUE, !.hasPrecipitation = TRUE,
                            !.rain = 300]
          ELSE rain
      showers ==
        IF weatherCode >= 80 /\ weatherCode <= 82
          THEN [snow EXCEPT
                  !.rain = showerRain(weatherCode),
                  !.hasPrecipitation = TRUE]
          ELSE snow
      thunderstorm ==
        IF weatherCode >= 95 /\ weatherCode <= 99
          THEN [showers EXCEPT
                  !.rain = 800,
                  !.thunder = thunderstormThunder(weatherCode),
                  !.hasPrecipitation = TRUE]
          ELSE showers
  IN thunderstorm

\* Mutant of calculateWindVolume: one flat volume per segment.
calculateWindVolumeStepped(windSpeedKph) ==
  IF windSpeedKph < 100 THEN 200
  ELSE IF windSpeedKph < 250 THEN 500
  ELSE IF windSpeedKph < 400 THEN 800
  ELSE 1000

\* calculateWindVolume(windSpeedKph): (w - 10) / 15 * 0.3 is 0.02 per kph,
\* 2 thousandths per tenth of a kph; (w - 40) / 20 * 0.2 is 0.01 per kph,
\* 1 thousandth per tenth of a kph.
calculateWindVolume(windSpeedKph) ==
  IF windSpeedKph < 100 THEN 200
  ELSE IF windSpeedKph < 250 THEN 200 + (windSpeedKph - 100) * 2
  ELSE IF windSpeedKph < 400 THEN 500 + (windSpeedKph - 250) * 2
  ELSE Min(1000, 800 + (windSpeedKph - 400))

\* A SoundLayer literal without fade and delay, with fadeInDuration, and
\* with fadeInDuration and startDelay (both in seconds); loop is true in
\* every layer of soundMapping.ts.
Layer(soundId, layerVolume, category) ==
  [soundId |-> soundId, volume |-> layerVolume, loop |-> TRUE,
   category |-> category]
LayerFaded(soundId, layerVolume, category, fadeInDuration) ==
  [soundId |-> soundId, volume |-> layerVolume, loop |-> TRUE,
   category |-> category, fadeInDuration |-> fadeInDuration]
LayerDelayed(soundId, layerVolume, category, fadeInDuration, startDelay) ==
  [soundId |-> soundId, volume |-> layerVolume, loop |-> TRUE,
   category |-> category, fadeInDuration |-> fadeInDuration,
   startDelay |-> startDelay]

\* if (condition) { layers.push(...pushed) }
PushIf(condition, pushed) == IF condition THEN pushed ELSE <<>>

\* Mutant of cityRainVolume: the cap of 0.75 is missing.
cityRainVolumeUncapped(weather) == 450000 + weather.rain * 600

\* getCitySounds: the volume of the rain-soaked asphalt blend,
\* Math.min(0.75, 0.45 + weather.rain * 0.6)
cityRainVolume(weather) == Min(750000, 450000 + weather.rain * 600)

\* getCitySounds
getCitySounds(timeOfDay, weather, windSpeedKph, includeBirds, includeCrickets) ==
  LET windVolume == calculateWindVolume(windSpeedKph)
      isNight == timeOfDay = "night"
      isEvening == timeOfDay = "evening"
      isDry == ~weather.hasPrecipitation
  IN <<Layer("traffic_medium_close",
             IF isNight THEN 400000 ELSE 550000, "base"),
       LayerFaded("traffic_medium_far", 280000, "base", 4)>>
     \o PushIf(~isNight /\ (isDry \/ weather.rain < 400),
          <<LayerFaded("chatter-footsteps_medium", 350000, "base", 3)>>)
     \o PushIf(isDry,
          <<LayerDelayed("cars-passing_medium_close", 250000, "accent", 2, 6),
            LayerDelayed("cars-passing_low_far", 180000, "accent", 5, 14)>>)
     \o PushIf(weather.hasPrecipitation,
          <<LayerFaded("rain-wind-city-traffic_medium_far",
                       cityRainVolume(weather), "weather", 5),
            LayerDelayed("drops-bucket-collecting-drips_light_close",
                         180000, "accent", 6, 20)>>)
     \o PushIf(isDry /\ weather.thunder = 0 /\ windSpeedKph < 250,
          <<LayerDelayed("plane_overhead-light", 220000, "accent", 4, 30)>>)
     \o PushIf(windVolume > 350 /\ isDry,
          <<LayerDelayed("windchimes_close", Min(220000, windVolume * 350),
                         "accent", 6, 18)>>)
     \o PushIf(isNight, <<LayerFaded("fan_close", 200000, "base", 8)>>)
     \o PushIf(isEvening,
          <<LayerDelayed("church-bells_medium_far", 220000, "accent", 3,
                         10)>>)

\* getForestSounds with a thunder variant that SOUND_PATH_MAP does not have.
forestThunderIdUnregistered(weather) ==
  IF weather.thunder > 600
    THEN "thunder_medium_close" ELSE "thunder_light_far_rain_light"

\* getForestSounds: the thunder variant, weather.thunder > 0.6 ? ... : ...
forestThunderId(weather) ==
  IF weather.thunder > 600
    THEN "thunder_medium_close" ELSE "thunder_light_far_rain_medium"

\* getForestSounds
getForestSounds(timeOfDay, weather, windSpeedKph, includeBirds, includeCrickets) ==
  LET windVolume == calculateWindVolume(windSpeedKph)
      isNight == timeOfDay = "night"
      isEvening == timeOfDay = "evening"
  IN PushIf(timeOfDay = "day" /\ includeBirds,
          <<Layer("birds-forest_light_far", 280000, "base"),
            LayerDelayed("wind-light_birds_medium", 220000, "base", 5, 10)>>)
     \o <<LayerFaded("wind_forest_medium", Max(300000, windVolume * 700),
                     "base", 4)>>
     \o PushIf(weather.hasPrecipitation,
          <<LayerFaded("rain_medium", Min(650000, weather.rain * 800),
                       "weather", 6),
            LayerFaded("wind-leaves_rustling-medium_rain_light",
                       Min(350000, 180000 + weather.rain * 400), "base", 7)>>)
     \o PushIf(weather.thunder > 0,
          <<LayerFaded(forestThunderId(weather),
                       Min(500000, weather.thunder * 650), "weather", 3)>>)
     \o PushIf((isEvening \/ isNight) /\ includeCrickets,
          <<LayerFaded("cicada_heavy", IF isNight THEN 320000 ELSE 240000,
                       "accent", 8)>>)

\* Mutant of fieldWindId: the comparison is >=.
fieldWindIdInclusive(windSpeedKph) ==
  IF windSpeedKph >= 200 THEN "wind_field_strong" ELSE "wind_grass_strong"

\* getFieldSounds: the wind bed, windSpeedKph > 20 ? ... : ...
fieldWindId(windSpeedKph) ==
  IF windSpeedKph > 200 THEN "wind_field_strong" ELSE "wind_grass_strong"

\* getFieldSounds
getFieldSounds(timeOfDay, weather, windSpeedKph, includeBirds, includeCrickets) ==
  LET windVolume == calculateWindVolume(windSpeedKph)
      isNight == timeOfDay = "night"
      rainSoundId == IF weather.rain > 600
                       THEN "rain_medium_close" ELSE "rain_light"
  IN PushIf(timeOfDay = "day" /\ includeBirds,
          <<Layer("birds_far", 50000, "base"),
            LayerDelayed("wind-leaves_rustling-light_birds_light", 180000,
                         "base", 4, 8)>>)
     \o <<LayerFaded(fieldWindId(windSpeedKph),
                     Max(400000, windVolume * 900), "base", 3)>>
     \o PushIf(weather.hasPrecipitation,
          <<LayerFaded(rainSoundId, Min(600000, weather.rain * 750),
                       "weather", 5)>>)
     \o PushIf(weather.thunder > 0,
          <<LayerFaded(IF weather.thunder > 600
                         THEN "thunder_medium_close"
                         ELSE "thunder_rolling_light_far",
                       Min(450000, weather.thunder * 550), "weather", 3)>>)
     \o PushIf((timeOfDay = "evening" \/ timeOfDay = "night")
                 /\ includeCrickets,
          <<LayerFaded("desert-cricket_heavy_close",
                       IF isNight THEN 280000 ELSE 200000, "accent", 10)>>)

\* getBeachSounds
getBeachSounds(timeOfDay, weather, windSpeedKph, includeBirds, includeCrickets) ==
  LET windVolume == calculateWindVolume(windSpeedKph)
      waveBaseId == IF windSpeedKph > 250
                      THEN "waves_medium_close_2" ELSE "waves_medium_close"
  IN <<Layer(waveBaseId, 640000, "base"),
       LayerFaded("waves_light_far", 280000, "base", 8)>>
     \o (IF timeOfDay = "day" /\ includeBirds
           THEN <<LayerFaded("wind_coastal_birds",
                             Max(220000, windVolume * 400), "base", 4)>>
           ELSE <<LayerFaded("wind_coastal_medium_far",
                             Max(350000, windVolume * 550), "base", 4)>>)
     \o PushIf(weather.hasPrecipitation,
          <<LayerFaded(IF weather.rain > 600
                         THEN "rain_medium_close" ELSE "rain_light",
                       Min(550000, 350000 + weather.rain * 600),
                       "weather", 5)>>)
     \o PushIf(weather.thunder > 0,
          <<LayerFaded(IF weather.thunder > 600
                         THEN "thunder_medium_close" ELSE "thunder_light_far",
                       Min(600000, weather.thunder * 750), "weather", 2)>>)

\* getLakeSounds with the frogs let in from the evening on.
lakeTimeAccentFrogsAtDusk(timeOfDay, includeCrickets, includeFrogs) ==
  IF (timeOfDay = "evening" \/ timeOfDay = "night") /\ includeFrogs
    THEN <<LayerFaded("frogs_close", 350000, "accent", 12)>>
    ELSE PushIf((timeOfDay = "evening" \/ timeOfDay = "night")
                  /\ includeCrickets,
           <<LayerFaded("cicada_heavy", 220000, "accent", 10)>>)

\* getLakeSounds with the cicadas pushed whether or not the frogs were.
lakeTimeAccentBoth(timeOfDay, includeCrickets, includeFrogs) ==
  PushIf(timeOfDay = "night" /\ includeFrogs,
    <<LayerFaded("frogs_close", 350000, "accent", 12)>>)
  \o PushIf((timeOfDay = "evening" \/ timeOfDay = "night")
             /\ includeCrickets,
       <<LayerFaded("cicada_heavy", 220000, "accent", 10)>>)

\* getLakeSounds: the time accent, frogs at night or else cicadas
lakeTimeAccent(timeOfDay, includeCrickets, includeFrogs) ==
  IF timeOfDay = "night" /\ includeFrogs
    THEN <<LayerFaded("frogs_close", 350000, "accent", 12)>>
    ELSE PushIf((timeOfDay = "evening" \/ timeOfDay = "night")
                  /\ includeCrickets,
           <<LayerFaded("cicada_heavy", 220000, "accent", 10)>>)

\* getLakeSounds
getLakeSounds(timeOfDay, weather, windSpeedKph, includeBirds, includeCrickets, includeFrogs) ==
  LET windVolume == calculateWindVolume(windSpeedKph)
  IN <<Layer("waves_small_close", 500000, "base"),
       LayerFaded("waves_light_close", 250000, "base", 7),
       LayerFaded("wind_autumn", Max(250000, windVolume * 500), "base", 5)>>
     \o PushIf(timeOfDay = "day" /\ includeBirds,
          <<LayerFaded("birds_far", 200000, "base", 3),
            LayerDelayed("wind-leaves_rustling-light_birds_light-2", 160000,
                         "base", 5, 12)>>)
     \o PushIf(weather.hasPrecipitation,
          <<LayerFaded("rain_light", Min(600000, weather.rain * 750),
                       "weather", 6),
            LayerFaded("stream_light_close",
                       Min(220000, 100000 + weather.rain * 300), "base", 8)>>)
     \o PushIf(weather.thunder > 0,
          <<LayerFaded("thunder_rolling_light_far",
                       Min(500000, weather.thunder * 600), "weather", 3)>>)
     \o lakeTimeAccent(timeOfDay, includeCrickets, includeFrogs)

\* Mutant of oceanBaseBed: the coastal wind is left out in calm weather.
oceanBaseBedCalm(windVolume) ==
  <<Layer("waves_medium_far", 620000, "base"),
    LayerFaded("waves_light_close", 260000, "base", 9)>>
  \o PushIf(windVolume * 700 > 400000,
        <<LayerFaded("wind_coastal_medium_far", windVolume * 700, "base",
                     4)>>)

\* getOceanSounds: the base bed, two wave layers and the coastal wind
oceanBaseBed(windVolume) ==
  <<Layer("waves_medium_far", 620000, "base"),
    LayerFaded("waves_light_close", 260000, "base", 9),
    LayerFaded("wind_coastal_medium_far", Max(400000, windVolume * 700),
               "base", 4)>>

\* getOceanSounds
getOceanSounds(timeOfDay, weather, windSpeedKph, includeBirds, includeCrickets) ==
  LET windVolume == calculateWindVolume(windSpeedKph)
  IN oceanBaseBed(windVolume)
     \o PushIf(timeOfDay = "day" /\ includeBirds,
          <<LayerDelayed("wind_coastal_birds", Max(200000, windVolume * 350),
                         "base", 6, 12)>>)
     \o PushIf(weather.hasPrecipitation,
          <<LayerFaded(IF weather.rain > 600
                         THEN "rain_medium_close" ELSE "rain_medium",
                       Min(600000, weather.rain * 750), "weather", 5)>>)
     \o PushIf(weather.thunder > 0,
          <<LayerFaded(IF weather.thunder > 700
                         THEN "thunder_medium_close"
                         ELSE "thunder_light_far_rain_medium",
                       Min(650000, weather.thunder * 800), "weather", 2)>>)

\* Mutant of desertRain: rain also fills a stream, as it does at the lake.
desertRainWithStream(weather) ==
  PushIf(weather.hasPrecipitation,
    <<LayerFaded(IF weather.rain > 400
                   THEN "rain_medium_close" ELSE "rain_light",
                 Min(500000, weather.rain * 650), "weather", 6),
      LayerFaded("stream_light_close",
                 Min(220000, 100000 + weather.rain * 300), "base", 8)>>)

\* getDesertSounds: the rain layer
desertRain(weather) ==
  PushIf(weather.hasPrecipitation,
    <<LayerFaded(IF weather.rain > 400
                   THEN "rain_medium_close" ELSE "rain_light",
                 Min(500000, weather.rain * 650), "weather", 6)>>)

\* getDesertSounds
getDesertSounds(timeOfDay, weather, windSpeedKph, includeBirds, includeCrickets) ==
  LET windVolume == calculateWindVolume(windSpeedKph)
  IN <<LayerFaded("desert-wind_light", Max(320000, windVolume * 700),
                  "base", 3),
       LayerDelayed("wind_field_strong", Max(200000, windVolume * 450),
                    "base", 6, 10)>>
     \o PushIf(timeOfDay = "day" /\ includeBirds,
          <<LayerFaded("desert-birds_bugs_light", 180000, "base", 5)>>)
     \o PushIf((timeOfDay = "evening" \/ timeOfDay = "night")
                 /\ includeCrickets,
          <<LayerFaded("desert-cricket_heavy_close",
                       IF timeOfDay = "night" THEN 260000 ELSE 200000,
                       "accent", 9)>>)
     \o desertRain(weather)
     \o PushIf(weather.thunder > 0,
          <<LayerFaded(IF weather.thunder > 700
                         THEN "thunder_medium_close"
                         ELSE "thunder_rolling_light_far",
                       Min(700000, weather.thunder * 850), "weather", 2)>>)

\* Mutant of getSoundLayers: humid air brings the frogs out.
getSoundLayersHumid(biome, timeOfDay, weatherCode, windSpeedKph, humidity, birdRandom, cricketRandom, frogRandom) ==
  LET weatherIntensity == mapWeatherToIntensity(weatherCode)
      includeBirds == shouldIncludeBirds(birdRandom)
      includeCrickets == shouldIncludeCrickets(cricketRandom)
      includeFrogs == shouldIncludeFrogs(frogRandom) \/ humidity > 70
  IN CASE biome = "city" ->
            getCitySounds(timeOfDay, weatherIntensity, windSpeedKph,
                          includeBirds, includeCrickets)
       [] biome = "forest" ->
            getForestSounds(timeOfDay, weatherIntensity, windSpeedKph,
                            includeBirds, includeCrickets)
       [] biome = "field" ->
            getFieldSounds(timeOfDay, weatherIntensity, windSpeedKph,
                           includeBirds, includeCrickets)
       [] biome = "beach" ->
            getBeachSounds(timeOfDay, weatherIntensity, windSpeedKph,
                           includeBirds, includeCrickets)
       [] biome = "lake" ->
            getLakeSounds(timeOfDay, weatherIntensity, windSpeedKph,
                          includeBirds, includeCrickets, includeFrogs)
       [] biome = "ocean" ->
            getOceanSounds(timeOfDay, weatherIntensity, windSpeedKph,
                           includeBirds, includeCrickets)
       [] biome = "desert" ->
            getDesertSounds(timeOfDay, weatherIntensity, windSpeedKph,
                            includeBirds, includeCrickets)
       [] OTHER -> <<>>

\* Mutant of getSoundLayers: the switch has a default branch, the forest.
getSoundLayersDefaultForest(biome, timeOfDay, weatherCode, windSpeedKph, humidity, birdRandom, cricketRandom, frogRandom) ==
  LET weatherIntensity == mapWeatherToIntensity(weatherCode)
      includeBirds == shouldIncludeBirds(birdRandom)
      includeCrickets == shouldIncludeCrickets(cricketRandom)
      includeFrogs == shouldIncludeFrogs(frogRandom)
  IN CASE biome = "city" ->
            getCitySounds(timeOfDay, weatherIntensity, windSpeedKph,
                          includeBirds, includeCrickets)
       [] biome = "field" ->
            getFieldSounds(timeOfDay, weatherIntensity, windSpeedKph,
                           includeBirds, includeCrickets)
       [] biome = "beach" ->
            getBeachSounds(timeOfDay, weatherIntensity, windSpeedKph,
                           includeBirds, includeCrickets)
       [] biome = "lake" ->
            getLakeSounds(timeOfDay, weatherIntensity, windSpeedKph,
                          includeBirds, includeCrickets, includeFrogs)
       [] biome = "ocean" ->
            getOceanSounds(timeOfDay, weatherIntensity, windSpeedKph,
                           includeBirds, includeCrickets)
       [] biome = "desert" ->
            getDesertSounds(timeOfDay, weatherIntensity, windSpeedKph,
                            includeBirds, includeCrickets)
       [] OTHER ->
            getForestSounds(timeOfDay, weatherIntensity, windSpeedKph,
                            includeBirds, includeCrickets)

\* getSoundLayers, given the results of the three Math.random() calls made
\* by shouldIncludeBirds, shouldIncludeCrickets and shouldIncludeFrogs
getSoundLayers(biome, timeOfDay, weatherCode, windSpeedKph, humidity, birdRandom, cricketRandom, frogRandom) ==
  LET weatherIntensity == mapWeatherToIntensity(weatherCode)
      includeBirds == shouldIncludeBirds(birdRandom)
      includeCrickets == shouldIncludeCrickets(cricketRandom)
      includeFrogs == shouldIncludeFrogs(frogRandom)
  IN CASE biome = "city" ->
            getCitySounds(timeOfDay, weatherIntensity, windSpeedKph,
                          includeBirds, includeCrickets)
       [] biome = "forest" ->
            getForestSounds(timeOfDay, weatherIntensity, windSpeedKph,
                            includeBirds, includeCrickets)
       [] biome = "field" ->
            getFieldSounds(timeOfDay, weatherIntensity, windSpeedKph,
                           includeBirds, includeCrickets)
       [] biome = "beach" ->
            getBeachSounds(timeOfDay, weatherIntensity, windSpeedKph,
                           includeBirds, includeCrickets)
       [] biome = "lake" ->
            getLakeSounds(timeOfDay, weatherIntensity, windSpeedKph,
                          includeBirds, includeCrickets, includeFrogs)
       [] biome = "ocean" ->
            getOceanSounds(timeOfDay, weatherIntensity, windSpeedKph,
                           includeBirds, includeCrickets)
       [] biome = "desert" ->
            getDesertSounds(timeOfDay, weatherIntensity, windSpeedKph,
                            includeBirds, includeCrickets)
       [] OTHER -> <<>>

\* No call of getSoundLayers, and none of a utility function, is under way.
NoComposerCall ==
  [biome |-> NULL, timeOfDay |-> NULL, weatherCode |-> 0, windSpeedKph |-> 0,
   called |-> FALSE, includeBirds |-> FALSE, includeCrickets |-> FALSE,
   includeFrogs |-> FALSE, weatherIntensity |-> NoIntensity, layers |-> <<>>]

NoUtilityCall == [fn |-> NULL, arg |-> 0, called |-> FALSE, returned |-> 0]

ComposerIdle == composer = NoComposerCall /\ utility = NoUtilityCall

\* A call of getSoundLayers with the arguments held in composer: humidity
\* and the three random numbers are drawn here; the outcomes of the draws,
\* the intensity computed and the list returned are recorded.
ComposeSoundscape ==
  /\ composer.biome # NULL /\ ~composer.called
  /\ \E humidity \in HumidityArgs,
        birdRandom \in RandomDraws, cricketRandom \in RandomDraws,
        frogRandom \in RandomDraws :
       composer' =
         [composer EXCEPT
            !.called = TRUE,
            !.includeBirds = shouldIncludeBirds(birdRandom),
            !.includeCrickets = shouldIncludeCrickets(cricketRandom),
            !.includeFrogs = shouldIncludeFrogs(frogRandom),
            !.weatherIntensity = mapWeatherToIntensity(composer.weatherCode),
            !.layers = getSoundLayers(composer.biome, composer.timeOfDay,
                                      composer.weatherCode,
                                      composer.windSpeedKph, humidity,
                                      birdRandom, cricketRandom, frogRandom)]
  /\ UNCHANGED <<providerVars, initVars, localStorage, mounted, error,
                 busVars, layerVars, probe, utility, pageVars>>

\* A call of mapWeatherToIntensity with the weather code held in utility.
MapWeatherToIntensity ==
  /\ utility.fn = "mapWeatherToIntensity" /\ ~utility.called
  /\ utility' = [utility EXCEPT !.called = TRUE,
                                !.returned = mapWeatherToIntensity(utility.arg)]
  /\ UNCHANGED <<providerVars, initVars, localStorage, mounted, error,
                 busVars, layerVars, probe, composer, pageVars>>

\* A call of calculateWindVolume with the wind speed held in utility.
CalculateWindVolume ==
  /\ utility.fn = "calculateWindVolume" /\ ~utility.called
  /\ utility' = [utility EXCEPT !.called = TRUE,
                                !.returned = calculateWindVolume(utility.arg)]
  /\ UNCHANGED <<providerVars, initVars, localStorage, mounted, error,
                 busVars, layerVars, probe, composer, pageVars>>

(***************************************************************************)
(* page.tsx and weather.ts: the page that fetches the weather              *)
(*                                                                         *)
(* A weather request is a record of its number in the order of issue, of   *)
(* what issued it (handleSearch or the refresh timer) and of the location  *)
(* asked for.  The weather data of a response records the request it       *)
(* answers, which also stands for the identity of the object.              *)
(***************************************************************************)
\* The most weather requests issued in a run.
MaxRequests == 4

\* Locations searched for, and the biome the server reports for each.
Locations == {"oslo", "lisbon"}
BiomeOf(location) == IF location = "oslo" THEN "forest" ELSE "ocean"

Requests ==
  [request : 1..MaxRequests, kind : {"search", "refresh"},
   location : Locations]

\* useState<WeatherData | null>(null): no weather data.
NoWeatherData ==
  [location |-> NULL, biome |-> NULL, request |-> 0, kind |-> NULL]

\* The WeatherData a request resolves to.
ResponseOf(r) ==
  [location |-> r.location, biome |-> BiomeOf(r.location),
   request |-> r.request, kind |-> r.kind]

\* The layers the controller composes from a weather data, by its biome.
ComposedLayers(data) ==
  IF data.biome = "forest"
    THEN [id \in SoundIds |-> IF id = "birds_far" THEN MaxGain
                              ELSE IF id = "wind_autumn" THEN 1 ELSE 0]
    ELSE [id \in SoundIds |-> IF id = "wind_autumn" THEN MaxGain
                              ELSE IF id = "rain_light" THEN 1 ELSE 0]

\* Home as constructed: no weather data, no request, no effect run yet.
PageIdle ==
  /\ weatherData = NoWeatherData
  /\ pageIsLoading = FALSE
  /\ pageError = NULL
  /\ refreshIntervalRef = NULL
  /\ issued = 0
  /\ inFlight = {}
  /\ effectDeps = [weatherData |-> NoWeatherData, isReady |-> FALSE]
  /\ forwardedWeather = NoWeatherData

(***************************************************************************)
(* Initial state: the provider as constructed, the controller not yet      *)
(* initialized, localStorage as an earlier session may have left it.       *)
(***************************************************************************)
Init ==
  /\ isReady = FALSE
  /\ isMuted = FALSE
  /\ volume = DefaultVolume
  /\ isLoading = FALSE
  /\ currentBiome = NULL
  /\ hasInteracted = FALSE
  /\ isInsideMode = FALSE
  /\ insideFilterFrequency = DefaultFilterFrequency
  /\ initializationPromiseRef = NULL
  /\ initClosure = NoClosure
  /\ initPromise = "none"
  /\ ctlInitializing = 0
  /\ joinedPending = FALSE
  /\ localStorage \in [inside_mode : {NULL, "true", "false"},
                       filter_frequency : {NULL, "600", "1500"}]
  /\ mounted = FALSE
  /\ error = NULL
  /\ ctlInitialized = FALSE
  /\ masterVolume = 100
  /\ ctlMuted = FALSE
  /\ ctlInsideMode = FALSE
  /\ ctlFilterFrequency = DefaultFilterFrequency
  /\ target = [id \in SoundIds |-> 0]
  /\ phase = [id \in SoundIds |-> "absent"]
  /\ gain = [id \in SoundIds |-> 0]
  /\ probe = NoProbe
  /\ ComposerIdle
  /\ PageIdle

(***************************************************************************)
(* AudioProvider                                                           *)
(***************************************************************************)
\* useEffect(..., []): load the inside mode preference on mount
LoadPreferences ==
  /\ ~mounted
  /\ mounted' = TRUE
  /\ isInsideMode' = IF localStorage.inside_mode # NULL
                       THEN ParseBoolean(localStorage.inside_mode)
                       ELSE isInsideMode
  /\ insideFilterFrequency' = IF localStorage.filter_frequency # NULL
                                THEN ParseNumber(localStorage.filter_frequency)
                                ELSE insideFilterFrequency
  /\ probe' = NoProbe
  /\ UNCHANGED <<isReady, isMuted, volume, isLoading, currentBiome,
                 hasInteracted, initVars, localStorage, error, busVars,
                 layerVars>>
  /\ UNCHANGED <<composerVars, pageVars>>

\* Mutant of HandleStart: initialize() does not look at
\* initializationPromiseRef and starts an initialization of its own.
HandleStartNoSingleFlight ==
  /\ mounted
  /\ error' = NULL
  /\ probe' = NoProbe
  /\ IF isReady
       THEN UNCHANGED <<providerVars, initVars>>
       ELSE /\ isLoading' = TRUE
            /\ joinedPending' = FALSE
            /\ initClosure' = [volume |-> volume,
                               isInsideMode |-> isInsideMode,
                               insideFilterFrequency |-> insideFilterFrequency]
            /\ initPromise' = "pending"
            /\ ctlInitializing' = ctlInitializing + 1
            /\ initializationPromiseRef' = "initPromise"
            /\ UNCHANGED <<isReady, isMuted, volume, currentBiome,
                           hasInteracted, isInsideMode,
                           insideFilterFrequency>>
  /\ UNCHANGED <<localStorage, mounted, busVars, layerVars>>
  /\ UNCHANGED <<composerVars, pageVars>>

\* AudioLaunchOverlay.handleStart up to its await, with the initialize()
\* it calls: setError(null), then either the pending promise is returned,
\* or "already initialized" is reported, or a new initialization starts and
\* runs to its await of controller.initialize().
HandleStart ==
  /\ mounted
  /\ error' = NULL
  /\ probe' = NoProbe
  /\ IF initializationPromiseRef # NULL
       THEN /\ joinedPending' = TRUE
            /\ UNCHANGED <<providerVars, initializationPromiseRef,
                           initClosure, initPromise, ctlInitializing>>
       ELSE IF isReady
         THEN UNCHANGED <<providerVars, initVars>>
         ELSE /\ isLoading' = TRUE
              /\ joinedPending' = FALSE
              /\ initClosure' = [volume |-> volume,
                                 isInsideMode |-> isInsideMode,
                                 insideFilterFrequency |-> insideFilterFrequency]
              /\ initPromise' = "pending"
              /\ ctlInitializing' = ctlInitializing + 1
              /\ initializationPromiseRef' = "initPromise"
              /\ UNCHANGED <<isReady, isMuted, volume, currentBiome,
                             hasInteracted, isInsideMode,
                             insideFilterFrequency>>
  /\ UNCHANGED <<localStorage, mounted, busVars, layerVars>>
  /\ UNCHANGED <<composerVars, pageVars>>

\* controller.initialize() resolved: the rest of the try block, then finally.
\* The values applied are the ones the closure captured when it was called.
InitializeResolved ==
  /\ initPromise = "pending"
  /\ ctlInitialized' = TRUE
  /\ masterVolume' = initClosure.volume
  /\ IF initClosure.isInsideMode
       THEN /\ ctlInsideMode' = TRUE
            /\ ctlFilterFrequency' = initClosure.insideFilterFrequency
       ELSE UNCHANGED <<ctlInsideMode, ctlFilterFrequency>>
  /\ isReady' = TRUE
  /\ hasInteracted' = TRUE
  /\ isLoading' = FALSE
  /\ initializationPromiseRef' = NULL
  /\ initClosure' = NoClosure
  /\ initPromise' = "fulfilled"
  /\ ctlInitializing' = ctlInitializing - 1
  /\ joinedPending' = FALSE
  /\ probe' = NoProbe
  /\ UNCHANGED <<isMuted, volume, currentBiome, isInsideMode,
                 insideFilterFrequency, localStorage, mounted, error,
                 ctlMuted, layerVars>>
  /\ UNCHANGED <<composerVars, pageVars>>

\* Mutant of InitializeRejected: the finally block is missing.
InitializeRejectedNoFinally ==
  /\ initPromise = "pending"
  /\ initPromise' = "rejected"
  /\ ctlInitializing' = ctlInitializing - 1
  /\ joinedPending' = FALSE
  /\ error' = "Failed to start audio. Please try again."
  /\ probe' = NoProbe
  /\ UNCHANGED <<providerVars, initializationPromiseRef, initClosure,
                 localStorage, mounted, busVars, layerVars>>
  /\ UNCHANGED <<composerVars, pageVars>>

\* controller.initialize() rejected: catch rethrows, finally runs, and
\* handleStart's catch sets the overlay's error.
InitializeRejected ==
  /\ initPromise = "pending"
  /\ isLoading' = FALSE
  /\ initializationPromiseRef' = NULL
  /\ initClosure' = NoClosure
  /\ initPromise' = "rejected"
  /\ ctlInitializing' = ctlInitializing - 1
  /\ joinedPending' = FALSE
  /\ error' = "Failed to start audio. Please try again."
  /\ probe' = NoProbe
  /\ UNCHANGED <<isReady, isMuted, volume, currentBiome, hasInteracted,
                 isInsideMode, insideFilterFrequency, localStorage, mounted,
                 busVars, layerVars>>
  /\ UNCHANGED <<composerVars, pageVars>>

\* Mutant of ToggleMute: the isReady guard is missing.
ToggleMuteUnguarded ==
  /\ mounted
  /\ ctlMuted' = ~ctlMuted
  /\ isMuted' = ctlMuted'
  /\ probe' = IF probe.stage \in {1, 2}
                THEN [probe EXCEPT !.stage = probe.stage + 1]
                ELSE NoProbe
  /\ UNCHANGED <<isReady, volume, isLoading, currentBiome, hasInteracted,
                 isInsideMode, insideFilterFrequency, initVars, localStorage,
                 mounted, error, ctlInitialized, masterVolume, ctlInsideMode,
                 ctlFilterFrequency, layerVars>>
  /\ UNCHANGED <<composerVars, pageVars>>

\* toggleMute()
ToggleMute ==
  /\ mounted
  /\ IF ~isReady
       THEN UNCHANGED <<isMuted, ctlMuted>>
       ELSE /\ ctlMuted' = ~ctlMuted
            /\ isMuted' = ctlMuted'
  /\ probe' = IF probe.stage \in {1, 2}
                THEN [probe EXCEPT !.stage = probe.stage + 1]
                ELSE NoProbe
  /\ UNCHANGED <<isReady, volume, isLoading, currentBiome, hasInteracted,
                 isInsideMode, insideFilterFrequency, initVars, localStorage,
                 mounted, error, ctlInitialized, masterVolume, ctlInsideMode,
                 ctlFilterFrequency, layerVars>>
  /\ UNCHANGED <<composerVars, pageVars>>

\* Mutant of SetVolume: moving the volume also unmutes the provider.
SetVolumeUnmutes(newVolume) ==
  /\ mounted
  /\ volume' = ClampVolume(newVolume)
  /\ isMuted' = FALSE
  /\ IF isReady
       THEN masterVolume' = ClampVolume(newVolume)
       ELSE UNCHANGED masterVolume
  /\ probe' = [stage |-> 1, vol |-> newVolume, wasMuted |-> isMuted]
  /\ UNCHANGED <<isReady, isLoading, currentBiome, hasInteracted,
                 isInsideMode, insideFilterFrequency, initVars, localStorage,
                 mounted, error, ctlInitialized, ctlMuted, ctlInsideMode,
                 ctlFilterFrequency, layerVars>>
  /\ UNCHANGED <<composerVars, pageVars>>

\* setVolume(newVolume)
SetVolume(newVolume) ==
  /\ mounted
  /\ volume' = ClampVolume(newVolume)
  /\ IF isReady
       THEN masterVolume' = ClampVolume(newVolume)
       ELSE UNCHANGED masterVolume
  /\ probe' = [stage |-> 1, vol |-> newVolume, wasMuted |-> isMuted]
  /\ UNCHANGED <<isReady, isMuted, isLoading, currentBiome, hasInteracted,
                 isInsideMode, insideFilterFrequency, initVars, localStorage,
                 mounted, error, ctlInitialized, ctlMuted, ctlInsideMode,
                 ctlFilterFrequency, layerVars>>
  /\ UNCHANGED <<composerVars, pageVars>>

\* toggleInsideMode()
ToggleInsideMode ==
  /\ mounted
  /\ IF ~isReady
       THEN UNCHANGED <<isInsideMode, localStorage, ctlInsideMode>>
       ELSE /\ isInsideMode' = ~isInsideMode
            /\ localStorage' = [localStorage EXCEPT
                                  !.inside_mode =
                                     StringifyBoolean(~isInsideMode)]
            /\ ctlInsideMode' = ~isInsideMode
  /\ probe' = NoProbe
  /\ UNCHANGED <<isReady, isMuted, volume, isLoading, currentBiome,
                 hasInteracted, insideFilterFrequency, initVars, mounted,
                 error, ctlInitialized, masterVolume, ctlMuted,
                 ctlFilterFrequency, layerVars>>
  /\ UNCHANGED <<composerVars, pageVars>>

\* setInsideFilterFrequency(frequency)
SetInsideFilterFrequency(frequency) ==
  /\ mounted
  /\ insideFilterFrequency' = StoredFrequency(frequency)
  /\ localStorage' = [localStorage EXCEPT
                        !.filter_frequency =
                           StringifyNumber(StoredFrequency(frequency))]
  /\ IF isReady
       THEN ctlFilterFrequency' = StoredFrequency(frequency)
       ELSE UNCHANGED ctlFilterFrequency
  /\ probe' = NoProbe
  /\ UNCHANGED <<isReady, isMuted, volume, isLoading, currentBiome,
                 hasInteracted, isInsideMode, initVars, mounted, error,
                 ctlInitialized, masterVolume, ctlMuted, ctlInsideMode,
                 layerVars>>
  /\ UNCHANGED <<composerVars, pageVars>>

\* InsideModeToggle.handleSliderChange: the slider is rendered once the
\* provider is ready and enabled in inside mode; the nearest stop's
\* frequency is set.
HandleSliderChange(sliderPosition) ==
  /\ isReady /\ isInsideMode
  /\ SetInsideFilterFrequency(NearestStop(sliderPosition).frequency)

(***************************************************************************)
(* Controller: reconciliation of a snapshot against the layers             *)
(***************************************************************************)
\* Mutant of ReconcilePhase: a sound whose volume changed is started again
\* instead of being retargeted.
ReconcilePhaseRestart(oldPhase, oldGain, oldTarget, newVolume) ==
  IF newVolume > 0 /\ (oldTarget = 0 \/ oldTarget # newVolume)
    THEN CASE oldPhase = "absent" -> "loading"
           [] oldPhase \in {"fadingOut", "steady"} -> "fadingIn"
           [] OTHER -> oldPhase
    ELSE IF newVolume = 0 /\ oldTarget > 0
      THEN CASE oldPhase \in {"fadingIn", "steady"} ->
                  IF oldGain > 0 THEN "fadingOut" ELSE "absent"
             [] oldPhase = "dropped" -> "absent"
             [] OTHER -> oldPhase
      ELSE oldPhase

\* Mutant of ReconcilePhase: a fade-out under way is not cancelled when the
\* sound is asked for again.
ReconcilePhaseNoCancel(oldPhase, oldGain, oldTarget, newVolume) ==
  IF newVolume > 0 /\ oldTarget = 0
    THEN CASE oldPhase = "absent" -> "loading"
           [] OTHER -> oldPhase
    ELSE IF newVolume = 0 /\ oldTarget > 0
      THEN CASE oldPhase \in {"fadingIn", "steady"} ->
                  IF oldGain > 0 THEN "fadingOut" ELSE "absent"
             [] oldPhase = "dropped" -> "absent"
             [] OTHER -> oldPhase
      ELSE oldPhase

\* The phase of one layer after a snapshot asks for volume newVolume
\* (0: the sound is not in the snapshot).  oldTarget is the volume the
\* previous snapshot asked for.  A sound that is new to the snapshot starts
\* loading, or, when it is still fading out, has the fade-out cancelled and
\* fades in again; a sound that left the snapshot fades out (a load still in
\* flight stays in flight and is looked at when it completes, a dropped
\* layer is forgotten); a sound in both keeps its phase, a changed volume
\* being only a new target of its ramp.
ReconcilePhase(oldPhase, oldGain, oldTarget, newVolume) ==
  IF newVolume > 0 /\ oldTarget = 0
    THEN CASE oldPhase = "absent" -> "loading"
           [] oldPhase = "fadingOut" -> "fadingIn"
           [] OTHER -> oldPhase
    ELSE IF newVolume = 0 /\ oldTarget > 0
      THEN CASE oldPhase \in {"fadingIn", "steady"} ->
                  IF oldGain > 0 THEN "fadingOut" ELSE "absent"
             [] oldPhase = "dropped" -> "absent"
             [] OTHER -> oldPhase
      ELSE oldPhase

\* Mutant of ReconcileGain: a fade-in that cancels a fade-out restarts its
\* ramp from silence.
ReconcileGainFromZero(oldPhase, oldGain, oldTarget, newVolume) ==
  IF newVolume > 0 /\ oldTarget = 0 /\ oldPhase = "fadingOut" THEN 0 ELSE oldGain

\* The gain of one layer right after a snapshot was reconciled: commands
\* only redirect the ramp, the gain stays where it is.
ReconcileGain(oldPhase, oldGain, oldTarget, newVolume) == oldGain

\* The target volume of one layer after a snapshot: the snapshot's.
NewTarget(oldTarget, newVolume) == newVolume

\* controller.updateSoundscape: the diff by soundId, applied to every layer
\* in one synchronous step; the snapshot becomes the target state.
ControllerUpdate(layers) ==
  /\ target' = [id \in SoundIds |-> NewTarget(target[id], layers[id])]
  /\ phase' = [id \in SoundIds |->
                 ReconcilePhase(phase[id], gain[id], target[id], layers[id])]
  /\ gain' = [id \in SoundIds |->
                ReconcileGain(phase[id], gain[id], target[id], layers[id])]

\* updateSoundscape(weatherData): the weather data is given by its biome and
\* by the layers the controller composes from it.
UpdateSoundscape(biome, layers) ==
  /\ mounted
  /\ IF ~isReady
       THEN UNCHANGED <<currentBiome, layerVars>>
       ELSE /\ ControllerUpdate(layers)
            /\ currentBiome' = biome
  /\ probe' = NoProbe
  /\ UNCHANGED <<isReady, isMuted, volume, isLoading, hasInteracted,
                 isInsideMode, insideFilterFrequency, initVars, localStorage,
                 mounted, error, busVars>>
  /\ UNCHANGED <<composerVars, pageVars>>

\* Mutant of PhaseAfterLoad: the completed load starts playback whatever
\* the target state is.
PhaseAfterLoadUnchecked(currentTarget) == "fadingIn"

\* The phase a layer enters when its asset has loaded: the load looks at the
\* current target state and starts the fade-in only if the sound is wanted.
PhaseAfterLoad(currentTarget) ==
  IF currentTarget > 0 THEN "fadingIn" ELSE "absent"

\* The asset of a layer finished loading.
LoadCompleted(id) ==
  /\ phase[id] = "loading"
  /\ phase' = [phase EXCEPT ![id] = PhaseAfterLoad(target[id])]
  /\ probe' = NoProbe
  /\ UNCHANGED <<providerVars, initVars, localStorage, mounted, error,
                 busVars, target, gain>>
  /\ UNCHANGED <<composerVars, pageVars>>

\* Mutant of DroppedOnFailure: one failed load rejects the whole batch of
\* loads in flight.
DroppedOnFailureAll(id) == SoundIds

\* The layers dropped when the asset of layer id cannot be loaded: that
\* layer alone.
DroppedOnFailure(id) == {id}

\* The asset of a layer could not be loaded: the layer is dropped.
LoadFailed(id) ==
  /\ phase[id] = "loading"
  /\ phase' = [other \in SoundIds |->
                 IF other \in DroppedOnFailure(id) /\ phase[other] = "loading"
                   THEN IF target[other] > 0 THEN "dropped" ELSE "absent"
                   ELSE phase[other]]
  /\ probe' = NoProbe
  /\ UNCHANGED <<providerVars, initVars, localStorage, mounted, error,
                 busVars, target, gain>>
  /\ UNCHANGED <<composerVars, pageVars>>

\* Where the ramp of a layer is heading.
RampGoal(id) == IF phase[id] = "fadingOut" THEN 0 ELSE target[id]

\* One step of a ramp.
StepToward(current, goal) ==
  IF current < goal THEN current + 1
  ELSE IF current > goal THEN current - 1 ELSE current

\* The fade timer of a layer fires: the gain moves one step along its ramp;
\* a fade-in that reached its target is steady, a fade-out that reached
\* silence releases the layer.
FadeStep(id) ==
  /\ \/ phase[id] \in {"fadingIn", "fadingOut"}
     \/ phase[id] = "steady" /\ gain[id] # target[id]
  /\ LET next == StepToward(gain[id], RampGoal(id))
     IN /\ gain' = [gain EXCEPT ![id] = next]
        /\ phase' = [phase EXCEPT ![id] =
                       IF phase[id] = "fadingOut"
                         THEN IF next = 0 THEN "absent" ELSE "fadingOut"
                         ELSE IF next = target[id] THEN "steady"
                         ELSE phase[id]]
  /\ probe' = NoProbe
  /\ UNCHANGED <<providerVars, initVars, localStorage, mounted, error,
                 busVars, target>>
  /\ UNCHANGED <<composerVars, pageVars>>

(***************************************************************************)
(* Specifications                                                          *)
(***************************************************************************)
\* The snapshots the provider specification hands over.
(***************************************************************************)
(* Home (page.tsx)                                                         *)
(*                                                                         *)
(* React runs the effects of a render before it renders again, so a step   *)
(* that sets weatherData waits for the effects of the previous render.     *)
(***************************************************************************)
\* The dependencies of the effects changed since they last ran.
EffectsPending ==
  effectDeps # [weatherData |-> weatherData, isReady |-> isReady]

\* handleSearch(query) up to its await of getWeather: SearchBar submits only
\* while the page is not loading.
HandleSearch(location) ==
  /\ ~pageIsLoading
  /\ issued < MaxRequests
  /\ pageIsLoading' = TRUE
  /\ pageError' = NULL
  /\ issued' = issued + 1
  /\ inFlight' = inFlight \cup {[request |-> issued + 1, kind |-> "search",
                                 location |-> location]}
  /\ UNCHANGED <<weatherData, refreshIntervalRef, effectDeps,
                 forwardedWeather>>
  /\ UNCHANGED <<providerVars, initVars, localStorage, mounted, error,
                 busVars, layerVars, probe, composerVars>>

\* handleSearch after its await: getWeather resolved.
SearchResolved(r) ==
  /\ r \in inFlight /\ r.kind = "search"
  /\ ~EffectsPending
  /\ weatherData' = ResponseOf(r)
  /\ pageIsLoading' = FALSE
  /\ inFlight' = inFlight \ {r}
  /\ UNCHANGED <<pageError, refreshIntervalRef, issued, effectDeps,
                 forwardedWeather>>
  /\ UNCHANGED <<providerVars, initVars, localStorage, mounted, error,
                 busVars, layerVars, probe, composerVars>>

\* handleSearch after its await: getWeather rejected.
SearchRejected(r) ==
  /\ r \in inFlight /\ r.kind = "search"
  /\ ~EffectsPending
  /\ pageError' = "Failed to fetch weather data"
  /\ weatherData' = NoWeatherData
  /\ pageIsLoading' = FALSE
  /\ inFlight' = inFlight \ {r}
  /\ UNCHANGED <<refreshIntervalRef, issued, effectDeps, forwardedWeather>>
  /\ UNCHANGED <<providerVars, initVars, localStorage, mounted, error,
                 busVars, layerVars, probe, composerVars>>

\* The 15-minute interval fires: refreshWeather up to its await of
\* getWeatherByCoordinates, for the location the interval was set up with.
RefreshTick ==
  /\ refreshIntervalRef # NULL
  /\ issued < MaxRequests
  /\ issued' = issued + 1
  /\ inFlight' = inFlight \cup {[request |-> issued + 1, kind |-> "refresh",
                                 location |-> refreshIntervalRef]}
  /\ UNCHANGED <<weatherData, pageIsLoading, pageError, refreshIntervalRef,
                 effectDeps, forwardedWeather>>
  /\ UNCHANGED <<providerVars, initVars, localStorage, mounted, error,
                 busVars, layerVars, probe, composerVars>>

\* refreshWeather after its await: getWeatherByCoordinates resolved.
RefreshResolved(r) ==
  /\ r \in inFlight /\ r.kind = "refresh"
  /\ ~EffectsPending
  /\ weatherData' = ResponseOf(r)
  /\ inFlight' = inFlight \ {r}
  /\ UNCHANGED <<pageIsLoading, pageError, refreshIntervalRef, issued,
                 effectDeps, forwardedWeather>>
  /\ UNCHANGED <<providerVars, initVars, localStorage, mounted, error,
                 busVars, layerVars, probe, composerVars>>

\* refreshWeather after its await: getWeatherByCoordinates rejected; the
\* error is logged.
RefreshRejected(r) ==
  /\ r \in inFlight /\ r.kind = "refresh"
  /\ inFlight' = inFlight \ {r}
  /\ UNCHANGED <<weatherData, pageIsLoading, pageError, refreshIntervalRef,
                 issued, effectDeps, forwardedWeather>>
  /\ UNCHANGED <<providerVars, initVars, localStorage, mounted, error,
                 busVars, layerVars, probe, composerVars>>

\* Mutant of PageEffects: isReady and updateSoundscape are missing from the
\* dependencies of the soundscape effect, which runs when weatherData
\* changed only.
PageEffectsWeatherOnly ==
  /\ EffectsPending
  /\ IF /\ weatherData # effectDeps.weatherData
        /\ weatherData # NoWeatherData /\ isReady
       THEN /\ ControllerUpdate(ComposedLayers(weatherData))
            /\ currentBiome' = weatherData.biome
            /\ forwardedWeather' = weatherData
       ELSE UNCHANGED <<currentBiome, layerVars, forwardedWeather>>
  /\ refreshIntervalRef' =
       IF weatherData = effectDeps.weatherData THEN refreshIntervalRef
       ELSE IF weatherData = NoWeatherData THEN NULL ELSE weatherData.location
  /\ effectDeps' = [weatherData |-> weatherData, isReady |-> isReady]
  /\ probe' = NoProbe
  /\ UNCHANGED <<weatherData, pageIsLoading, pageError, issued, inFlight>>
  /\ UNCHANGED <<isReady, isMuted, volume, isLoading, hasInteracted,
                 isInsideMode, insideFilterFrequency, initVars, localStorage,
                 mounted, error, busVars, composerVars>>

\* The effects of Home after a render in which weatherData or isReady
\* changed.  The soundscape effect calls updateSoundscape(weatherData) when
\* there is weather data and the provider is ready, and the provider hands
\* it to the controller and sets currentBiome.  The refresh effect, when
\* weatherData changed, clears the interval of the previous weather data and
\* sets one up for the location of the new one.
PageEffects ==
  /\ EffectsPending
  /\ IF weatherData # NoWeatherData /\ isReady
       THEN /\ ControllerUpdate(ComposedLayers(weatherData))
            /\ currentBiome' = weatherData.biome
            /\ forwardedWeather' = weatherData
       ELSE UNCHANGED <<currentBiome, layerVars, forwardedWeather>>
  /\ refreshIntervalRef' =
       IF weatherData = effectDeps.weatherData THEN refreshIntervalRef
       ELSE IF weatherData = NoWeatherData THEN NULL ELSE weatherData.location
  /\ effectDeps' = [weatherData |-> weatherData, isReady |-> isReady]
  /\ probe' = NoProbe
  /\ UNCHANGED <<weatherData, pageIsLoading, pageError, issued, inFlight>>
  /\ UNCHANGED <<isReady, isMuted, volume, isLoading, hasInteracted,
                 isInsideMode, insideFilterFrequency, initVars, localStorage,
                 mounted, error, busVars, composerVars>>

ProviderSnapshots ==
  {layers \in Snapshots : layers["birds_far"] = 0 /\ layers["wind_autumn"] = 0}

\* The provider and the output bus of the controller.
Next ==
  \/ LoadPreferences
  \/ HandleStart
  \/ InitializeResolved
  \/ InitializeRejected
  \/ ToggleMute
  \/ \E newVolume \in VolumeArgs : SetVolume(newVolume)
  \/ \E biome \in Biomes, layers \in ProviderSnapshots :
       UpdateSoundscape(biome, layers)
  \/ ToggleInsideMode
  \/ \E frequency \in FrequencyArgs : SetInsideFilterFrequency(frequency)
  \/ \E sliderPosition \in SliderPositions : HandleSliderChange(sliderPosition)

Spec == Init /\ [][Next]_vars

\* The provider once initialization has succeeded with nothing saved and
\* nothing changed: the state Spec reaches by LoadPreferences, HandleStart,
\* InitializeResolved from an empty localStorage.
InitLayers ==
  /\ isReady = TRUE
  /\ isMuted = FALSE
  /\ volume = DefaultVolume
  /\ isLoading = FALSE
  /\ currentBiome = NULL
  /\ hasInteracted = TRUE
  /\ isInsideMode = FALSE
  /\ insideFilterFrequency = DefaultFilterFrequency
  /\ initializationPromiseRef = NULL
  /\ initClosure = NoClosure
  /\ initPromise = "fulfilled"
  /\ ctlInitializing = 0
  /\ joinedPending = FALSE
  /\ localStorage = [inside_mode |-> NULL, filter_frequency |-> NULL]
  /\ mounted = TRUE
  /\ error = NULL
  /\ ctlInitialized = TRUE
  /\ masterVolume = DefaultVolume
  /\ ctlMuted = FALSE
  /\ ctlInsideMode = FALSE
  /\ ctlFilterFrequency = DefaultFilterFrequency
  /\ target = [id \in SoundIds |-> 0]
  /\ phase = [id \in SoundIds |-> "absent"]
  /\ gain = [id \in SoundIds |-> 0]
  /\ probe = NoProbe
  /\ ComposerIdle
  /\ PageIdle

\* The layers of the controller under successive snapshots.
NextLayers ==
  \/ \E biome \in Biomes, layers \in Snapshots :
       UpdateSoundscape(biome, layers)
  \/ \E id \in SoundIds : LoadCompleted(id)
  \/ \E id \in SoundIds : LoadFailed(id)
  \/ \E id \in SoundIds : FadeStep(id)

SpecLayers == InitLayers /\ [][NextLayers]_vars

(***************************************************************************)
(* The composer on its own: getSoundLayers called once with arguments      *)
(* drawn from the input sets (SpecComposer), and mapWeatherToIntensity or  *)
(* calculateWindVolume called once (SpecUtilities).  The provider stays as *)
(* constructed.                                                            *)
(***************************************************************************)
\* The provider and the controller as constructed, nothing saved.
Constructed ==
  /\ isReady = FALSE
  /\ isMuted = FALSE
  /\ volume = DefaultVolume
  /\ isLoading = FALSE
  /\ currentBiome = NULL
  /\ hasInteracted = FALSE
  /\ isInsideMode = FALSE
  /\ insideFilterFrequency = DefaultFilterFrequency
  /\ initializationPromiseRef = NULL
  /\ initClosure = NoClosure
  /\ initPromise = "none"
  /\ ctlInitializing = 0
  /\ joinedPending = FALSE
  /\ localStorage = [inside_mode |-> NULL, filter_frequency |-> NULL]
  /\ mounted = FALSE
  /\ error = NULL
  /\ ctlInitialized = FALSE
  /\ masterVolume = 100
  /\ ctlMuted = FALSE
  /\ ctlInsideMode = FALSE
  /\ ctlFilterFrequency = DefaultFilterFrequency
  /\ target = [id \in SoundIds |-> 0]
  /\ phase = [id \in SoundIds |-> "absent"]
  /\ gain = [id \in SoundIds |-> 0]
  /\ probe = NoProbe

InitComposer ==
  /\ Constructed
  /\ \E biome \in BiomeArgs, timeOfDay \in TimesOfDay,
        weatherCode \in WeatherCodes, windSpeedKph \in WindSpeedArgs :
       composer = [NoComposerCall EXCEPT !.biome = biome,
                                         !.timeOfDay = timeOfDay,
                                         !.weatherCode = weatherCode,
                                         !.windSpeedKph = windSpeedKph]
  /\ utility = NoUtilityCall
  /\ PageIdle

NextComposer == ComposeSoundscape

SpecComposer == InitComposer /\ [][NextComposer]_vars

InitUtilities ==
  /\ Constructed
  /\ composer = NoComposerCall
  /\ PageIdle
  /\ \/ \E weatherCode \in WeatherCodes :
          utility = [NoUtilityCall EXCEPT !.fn = "mapWeatherToIntensity",
                                          !.arg = weatherCode]
     \/ \E windSpeedKph \in WindSpeedRange :
          utility = [NoUtilityCall EXCEPT !.fn = "calculateWindVolume",
                                          !.arg = windSpeedKph]

NextUtilities ==
  \/ MapWeatherToIntensity
  \/ CalculateWindVolume

SpecUtilities == InitUtilities /\ [][NextUtilities]_vars

(***************************************************************************)
(* The page with the provider: searches, refreshes and their responses in  *)
(* any order, around the initialization of the audio (SpecPage); with the  *)
(* effects of a render run eventually (SpecPageFair).                      *)
(***************************************************************************)
InitPage ==
  /\ Constructed
  /\ ComposerIdle
  /\ PageIdle

NextPage ==
  \/ LoadPreferences
  \/ HandleStart
  \/ InitializeResolved
  \/ InitializeRejected
  \/ \E location \in Locations : HandleSearch(location)
  \/ \E r \in Requests : SearchResolved(r)
  \/ \E r \in Requests : SearchRejected(r)
  \/ RefreshTick
  \/ \E r \in Requests : RefreshResolved(r)
  \/ \E r \in Requests : RefreshRejected(r)
  \/ PageEffects

SpecPage == InitPage /\ [][NextPage]_vars

SpecPageFair == SpecPage /\ WF_vars(PageEffects)

(***************************************************************************)
(* Properties of the controller's layers (SpecLayers)                      *)
(***************************************************************************)
\* A fade-out was issued for a layer: it is heading to silence, or has
\* nothing to ramp (its load is still in flight, or it has no gain).
FadeOutIssued(id) ==
  /\ phase'[id] \in {"fadingOut", "absent", "loading"}
  /\ gain[id] > 0 => phase'[id] = "fadingOut"
  /\ phase'[id] = "loading" => phase[id] = "loading"

\* A fade-in was issued for a layer: its asset is loading, or the fade-out
\* it was in has been turned into a fade-in.
FadeInIssued(id) ==
  /\ phase'[id] \in {"loading", "fadingIn"}
  /\ phase'[id] = "fadingIn" <=> phase[id] = "fadingOut"

\* One layer across an update from the snapshot in target to one asking for
\* newVolume: exactly the transition the diff by soundId calls for.
LayerFollowsDiff(id, newVolume) ==
  /\ target'[id] = newVolume
  /\ gain'[id] = gain[id]
  /\ (target[id] > 0 /\ newVolume = 0) => FadeOutIssued(id)
  /\ (target[id] = 0 /\ newVolume > 0) => FadeInIssued(id)
  /\ ((target[id] > 0) = (newVolume > 0)) => phase'[id] = phase[id]

\* C1: an update from snapshot Old (the target state) to snapshot New issues
\* a fade-out for every soundId in Old and not in New, a fade-in for every
\* soundId in New and not in Old, a retarget (new target, same phase, same
\* gain) for every soundId in both whose volume differs, and nothing else;
\* an identical snapshot changes no layer at all.
C1_ReconciliationExact ==
  [][\A layers \in Snapshots :
       UpdateSoundscape(currentBiome', layers) =>
         /\ \A id \in SoundIds : LayerFollowsDiff(id, layers[id])
         /\ layers = target => UNCHANGED layerVars]_vars

\* C1 witness: after [rain_light, wind_autumn(1)] the snapshot
\* [wind_autumn(MaxGain), birds_far] arrived: rain_light fades out,
\* wind_autumn is retargeted from its steady gain, birds_far is started.
C1_Witness ==
  /\ phase["rain_light"] = "fadingOut" /\ target["rain_light"] = 0
  /\ phase["wind_autumn"] = "steady" /\ gain["wind_autumn"] = 1
  /\ target["wind_autumn"] = MaxGain
  /\ phase["birds_far"] = "loading" /\ target["birds_far"] = 1

\* No load in flight and no ramp under way.
Settled ==
  \A id \in SoundIds :
    /\ phase[id] \in {"absent", "steady", "dropped"}
    /\ phase[id] = "steady" => gain[id] = target[id]

C7_LoadIsCancellationAware ==
  [][\A id \in SoundIds :
       /\ (LoadCompleted(id) /\ target[id] = 0) =>
            phase'[id] = "absent" /\ gain'[id] = 0
       /\ (phase[id] # "fadingIn" /\ phase'[id] = "fadingIn") =>
            target'[id] > 0
       /\ phase'[id] \in {"fadingIn", "steady"} => target'[id] > 0]_vars

\* C7 witness: a sound was removed while its asset was still loading.
C7_Witness ==
  \E id \in SoundIds : phase[id] = "loading" /\ target[id] = 0

(***************************************************************************)
(* Properties of the provider and the output bus (Spec)                    *)
(***************************************************************************)
\* The valid volume nearest to a number, in percent.
NearestValidVolume(v) == IF v < 0 THEN 0 ELSE IF v > 100 THEN 100 ELSE v

\* A step of one of the five control methods.
ControlMethodStep ==
  \/ ToggleMute
  \/ \E newVolume \in VolumeArgs : SetVolume(newVolume)
  \/ \E biome \in Biomes, layers \in ProviderSnapshots :
       UpdateSoundscape(biome, layers)
  \/ ToggleInsideMode
  \/ \E frequency \in FrequencyArgs : SetInsideFilterFrequency(frequency)

\* C4: toggleMute leaves the stored volume and the master volume alone,
\* setVolume leaves the mute flag alone, the provider's flag is the
\* controller's, and right after setVolume(v), toggleMute(), toggleMute()
\* the mute flag is what it was before, the stored volume is v and, once
\* initialized, the output is at v (silent if it was muted before).
C4_MuteVolumeIndependent ==
  /\ [](isMuted = ctlMuted)
  /\ [](probe.stage = 3 =>
          /\ isMuted = probe.wasMuted
          /\ volume = NearestValidVolume(probe.vol)
          /\ isReady =>
               /\ masterVolume = NearestValidVolume(probe.vol)
               /\ AudibleOutput = IF probe.wasMuted
                                    THEN 0 ELSE NearestValidVolume(probe.vol))
  /\ [][/\ ToggleMute => volume' = volume /\ masterVolume' = masterVolume
        /\ (\E newVolume \in VolumeArgs : SetVolume(newVolume)) =>
             isMuted' = isMuted /\ ctlMuted' = ctlMuted]_vars

\* C4 witness: setVolume(0.7), toggleMute(), toggleMute() were called in a
\* row on the initialized, unmuted provider and the output is at 0.7.
C4_Witness ==
  /\ probe.stage = 3 /\ probe.vol = 70 /\ ~probe.wasMuted
  /\ isReady /\ ~isMuted /\ AudibleOutput = 70

\* C5 as stated: a control method called before initialization has
\* completed changes no audio state, no persisted copy and nothing in the
\* controller.
C5_NoOpBeforeReady ==
  [][(~isReady /\ ControlMethodStep) =>
       UNCHANGED <<isMuted, volume, currentBiome, isInsideMode,
                   insideFilterFrequency, localStorage, busVars,
                   layerVars>>]_vars

\* C5 amended: before initialization has completed no control method
\* reaches the controller; toggleMute, updateSoundscape and toggleInsideMode
\* change nothing, setVolume changes only the stored volume (to the clamped
\* argument), and setInsideFilterFrequency changes only the stored frequency
\* and its persisted copy.
C5_NoCommandBeforeReady ==
  [][(~isReady /\ ControlMethodStep) =>
       /\ UNCHANGED <<isMuted, currentBiome, isInsideMode, busVars, layerVars>>
       /\ localStorage'.inside_mode = localStorage.inside_mode
       /\ \/ UNCHANGED <<volume, insideFilterFrequency, localStorage>>
          \/ /\ \E newVolume \in VolumeArgs :
                  /\ SetVolume(newVolume)
                  /\ volume' = NearestValidVolume(newVolume)
             /\ UNCHANGED <<insideFilterFrequency, localStorage>>
          \/ /\ \E frequency \in FrequencyArgs :
                  SetInsideFilterFrequency(frequency)
             /\ UNCHANGED volume]_vars

\* C5 witness: setVolume was called before initialization: the stored
\* volume moved, the controller was not touched.
C5_Witness ==
  /\ ~isReady /\ ~ctlInitialized
  /\ probe.stage = 1 /\ volume = 70
  /\ masterVolume = 100

\* C8: after a failed initialization the caller has the rejection (the
\* overlay shows its error), isReady is false, isLoading is false and the
\* promise ref is cleared; the next initialize() starts a new attempt.
C8_InitFailureSurfaced ==
  /\ [](initPromise = "rejected" =>
          /\ ~isReady /\ ~isLoading
          /\ initializationPromiseRef = NULL
          /\ error # NULL)
  /\ [][(initPromise = "rejected" /\ HandleStart) =>
          initPromise' = "pending" /\ isLoading' /\ ~isReady']_vars

\* C8 witness: an initialization was rejected.
C8_Witness ==
  /\ initPromise = "rejected" /\ error # NULL
  /\ ~isReady /\ ~isLoading

\* C9: setVolume stores, and passes to an initialized controller, the valid
\* volume nearest to its argument; the stored volume and the master volume
\* are within [0,1] in every state.
C9_SetVolumeClamps ==
  /\ [](volume \in 0..100 /\ masterVolume \in 0..100)
  /\ [][\A newVolume \in VolumeArgs :
          SetVolume(newVolume) =>
            /\ volume' = NearestValidVolume(newVolume)
            /\ isReady => masterVolume' = NearestValidVolume(newVolume)]_vars

\* C9 witness: setVolume was called with -0.5 on the initialized provider.
C9_Witness ==
  /\ probe.stage = 1 /\ probe.vol = -50
  /\ isReady /\ volume = 0 /\ masterVolume = 0

\* C10 as stated: the stored filter frequency, its persisted copy and the
\* frequency handed to the controller are within 200..2000 Hz in every
\* state.
C10_FrequencyInRange ==
  /\ insideFilterFrequency \in 200..2000
  /\ ctlFilterFrequency \in 200..2000
  /\ localStorage.filter_frequency # NULL =>
       ParseNumber(localStorage.filter_frequency) \in 200..2000

(***************************************************************************)
(* Properties of mapWeatherToIntensity and calculateWindVolume             *)
(* (SpecUtilities)                                                         *)
(***************************************************************************)
\* The weather code ranges of the documented table.
DrizzleCodes == 51..57
RainCodes == 61..67
SnowCodes == 71..77 \cup {85, 86}
ShowerCodes == 80..82
ThunderstormCodes == 95..99

\* mapWeatherToIntensity has returned.
IntensityReturned ==
  utility.fn = "mapWeatherToIntensity" /\ utility.called

WindVolumeReturned ==
  utility.fn = "calculateWindVolume" /\ utility.called

C16_HasPrecipitationInvariant ==
  IntensityReturned =>
    LET code == utility.arg
        intensity == utility.returned
    IN /\ intensity.hasPrecipitation =
            (\/ intensity.rain > 0
             \/ intensity.snow
             \/ code \in DrizzleCodes \cup RainCodes \cup ShowerCodes
                           \cup ThunderstormCodes)
       /\ intensity.thunder > 0 => intensity.hasPrecipitation
       /\ intensity.hasPrecipitation => intensity.rain > 0

\* C16 witness: mapWeatherToIntensity(73) returned snow, precipitation and
\* rain 0.3.
C16_Witness ==
  /\ IntensityReturned /\ utility.arg = 73
  /\ utility.returned.snow /\ utility.returned.hasPrecipitation
  /\ utility.returned.rain = 300

\* Two codes of one graded range: drizzle, rain, showers or thunderstorm.
SameCategory(c1, c2) ==
  \E range \in {DrizzleCodes, RainCodes, ShowerCodes, ThunderstormCodes} :
    c1 \in range /\ c2 \in range

\* C17: within one range (drizzle 51-57, rain 61-67, showers 80-82,
\* thunderstorm 95-99) a code never gets a lower rain or thunder than a
\* lesser code of the range.
C17_IntensityMonotone ==
  IntensityReturned =>
    \A lesser \in WeatherCodes :
      (lesser <= utility.arg /\ SameCategory(lesser, utility.arg)) =>
        /\ mapWeatherToIntensity(lesser).rain <= utility.returned.rain
        /\ mapWeatherToIntensity(lesser).thunder <= utility.returned.thunder

\* C17 witness: mapWeatherToIntensity(57), the last drizzle code, returned
\* rain 0.5, above the 0.2 of code 51.
C17_Witness ==
  /\ IntensityReturned /\ utility.arg = 57 /\ utility.returned.rain = 500
  /\ mapWeatherToIntensity(51).rain = 200

(***************************************************************************)
(* Properties of getSoundLayers (SpecComposer)                             *)
(***************************************************************************)
\* The returned list has a layer with this sound id, of category base.
HasBaseLayer(soundId) ==
  \E i \in DOMAIN composer.layers :
    /\ composer.layers[i].soundId = soundId
    /\ composer.layers[i].category = "base"

\* The positions of the returned list whose asset lies in the water/
\* directory of the registry.
WaterLayers ==
  {i \in DOMAIN composer.layers :
     AssetDirectory(composer.layers[i].soundId) = "water"}

\* C13: for every known biome the returned list has at least one base
\* layer; ocean always has waves_medium_far, waves_light_close and
\* wind_coastal_medium_far, and desert always has the wind layers
\* desert-wind_light and wind_field_strong, whatever the time of day, the
\* weather code, the wind speed and the draws.
C13_BaseBedAlwaysPresent ==
  (composer.called /\ composer.biome \in KnownBiomes) =>
    /\ \E i \in DOMAIN composer.layers : composer.layers[i].category = "base"
    /\ composer.biome = "ocean" =>
         /\ HasBaseLayer("waves_medium_far")
         /\ HasBaseLayer("waves_light_close")
         /\ HasBaseLayer("wind_coastal_medium_far")
    /\ composer.biome = "desert" =>
         /\ HasBaseLayer("desert-wind_light")
         /\ HasBaseLayer("wind_field_strong")

\* C13 witness: getSoundLayers('desert', 'day', 0, 5, h) returned its two
\* wind layers.
C13_Witness ==
  /\ composer.called /\ composer.biome = "desert"
  /\ composer.timeOfDay = "day" /\ composer.weatherCode = 0
  /\ composer.windSpeedKph = 50
  /\ HasBaseLayer("desert-wind_light") /\ HasBaseLayer("wind_field_strong")

\* C14 as stated: no layer returned for the desert has a sound id that the
\* registry maps into water/.
C14_DesertNeverWater ==
  (composer.called /\ composer.biome = "desert") => WaterLayers = {}

\* C14 amended: the desert has no water asset when the weather code carries
\* no precipitation; when it does, its only water asset is the one rain
\* layer, rain_light or rain_medium_close, of category weather.
C14_DesertWaterOnlyAsRain ==
  (composer.called /\ composer.biome = "desert") =>
    /\ ~composer.weatherIntensity.hasPrecipitation => WaterLayers = {}
    /\ composer.weatherIntensity.hasPrecipitation =>
         /\ Cardinality(WaterLayers) = 1
         /\ \A i \in WaterLayers :
              /\ composer.layers[i].soundId \in
                   {"rain_light", "rain_medium_close"}
              /\ composer.layers[i].category = "weather"

\* C14 witness: heavy rain (code 65) in the desert plays rain_medium_close.
C14_Witness ==
  /\ composer.called /\ composer.biome = "desert"
  /\ composer.weatherCode = 65
  /\ \E i \in WaterLayers : composer.layers[i].soundId = "rain_medium_close"

\* C15: getSoundLayers returns a list for every input (a call is possible
\* for every argument and leaves a list), and the empty list for a biome
\* that is none of city, forest, field, beach, lake, ocean, desert.
C15_ComposerNeverFails ==
  /\ (composer.biome # NULL /\ ~composer.called) => ENABLED ComposeSoundscape
  /\ composer.called =>
       /\ DOMAIN composer.layers = 1..Len(composer.layers)
       /\ composer.biome \notin KnownBiomes <=> composer.layers = <<>>

\* C15 witness: getSoundLayers returned the empty list for 'tundra'.
C15_Witness ==
  /\ composer.called /\ composer.biome = "tundra" /\ composer.layers = <<>>

\* The sound ids of the returned list.
LayerIds == {composer.layers[i].soundId : i \in DOMAIN composer.layers}

\* The returned list has the first sound id and not the second.
Chose(chosen, other) == chosen \in LayerIds /\ other \notin LayerIds

\* C18 as stated: an input exactly at a boundary takes the higher-intensity
\* branch: codes 53, 55, 63 and 65 get the rain of the band above, thunder
\* 0.6 selects the close thunder in forest, field and beach, rain 0.4
\* selects the closer rain in the desert, 20 kph selects the strong field
\* wind and 25 kph the second beach wave.
C18_BoundaryTakesHigher ==
  composer.called =>
    LET weather == composer.weatherIntensity
    IN /\ composer.weatherCode = 53 => weather.rain = 350
       /\ composer.weatherCode = 55 => weather.rain = 500
       /\ composer.weatherCode = 63 => weather.rain = 700
       /\ composer.weatherCode = 65 => weather.rain = 900
       /\ (composer.biome = "forest" /\ weather.thunder = 600) =>
            Chose("thunder_medium_close", "thunder_light_far_rain_medium")
       /\ (composer.biome = "field" /\ weather.thunder = 600) =>
            Chose("thunder_medium_close", "thunder_rolling_light_far")
       /\ (composer.biome = "beach" /\ weather.thunder = 600) =>
            Chose("thunder_medium_close", "thunder_light_far")
       /\ (composer.biome = "desert" /\ weather.rain = 400) =>
            Chose("rain_medium_close", "rain_light")
       /\ (composer.biome = "field" /\ composer.windSpeedKph = 200) =>
            Chose("wind_field_strong", "wind_grass_strong")
       /\ (composer.biome = "beach" /\ composer.windSpeedKph = 250) =>
            Chose("waves_medium_close_2", "waves_medium_close")

\* C18 amended: an input exactly at a boundary takes the lower-intensity
\* branch, and the next input above it the higher one: codes 53, 55, 63
\* and 65 get the rain of their own band and 54, 56, 64, 66 that of the
\* next; thunder 0.6 selects the far thunder in forest, field and beach and
\* thunder 0.8 the close one; rain 0.4 selects rain_light in the desert and
\* rain 0.5 rain_medium_close; 20 kph selects wind_grass_strong in the
\* field and 20.1 kph wind_field_strong; 25 kph selects waves_medium_close
\* at the beach and 25.1 kph waves_medium_close_2.
C18_BoundaryTakesLower ==
  composer.called =>
    LET weather == composer.weatherIntensity
    IN /\ composer.weatherCode = 53 => weather.rain = 200
       /\ composer.weatherCode = 54 => weather.rain = 350
       /\ composer.weatherCode = 55 => weather.rain = 350
       /\ composer.weatherCode = 56 => weather.rain = 500
       /\ composer.weatherCode = 63 => weather.rain = 400
       /\ composer.weatherCode = 64 => weather.rain = 700
       /\ composer.weatherCode = 65 => weather.rain = 700
       /\ composer.weatherCode = 66 => weather.rain = 900
       /\ (composer.biome = "forest" /\ weather.thunder = 600) =>
            Chose("thunder_light_far_rain_medium", "thunder_medium_close")
       /\ (composer.biome = "forest" /\ weather.thunder = 800) =>
            Chose("thunder_medium_close", "thunder_light_far_rain_medium")
       /\ (composer.biome = "field" /\ weather.thunder = 600) =>
            Chose("thunder_rolling_light_far", "thunder_medium_close")
       /\ (composer.biome = "field" /\ weather.thunder = 800) =>
            Chose("thunder_medium_close", "thunder_rolling_light_far")
       /\ (composer.biome = "beach" /\ weather.thunder = 600) =>
            Chose("thunder_light_far", "thunder_medium_close")
       /\ (composer.biome = "beach" /\ weather.thunder = 800) =>
            Chose("thunder_medium_close", "thunder_light_far")
       /\ (composer.biome = "desert" /\ weather.rain = 400) =>
            Chose("rain_light", "rain_medium_close")
       /\ (composer.biome = "desert" /\ weather.rain = 500) =>
            Chose("rain_medium_close", "rain_light")
       /\ (composer.biome = "field" /\ composer.windSpeedKph = 200) =>
            Chose("wind_grass_strong", "wind_field_strong")
       /\ (composer.biome = "field" /\ composer.windSpeedKph = 201) =>
            Chose("wind_field_strong", "wind_grass_strong")
       /\ (composer.biome = "beach" /\ composer.windSpeedKph = 250) =>
            Chose("waves_medium_close", "waves_medium_close_2")
       /\ (composer.biome = "beach" /\ composer.windSpeedKph = 251) =>
            Chose("waves_medium_close_2", "waves_medium_close")

\* C18 witness: a thunderstorm of thunder 0.6 (code 95) over the forest
\* played the far thunder.
C18_Witness ==
  /\ composer.called /\ composer.biome = "forest"
  /\ composer.weatherCode = 95 /\ composer.weatherIntensity.thunder = 600
  /\ Chose("thunder_light_far_rain_medium", "thunder_medium_close")

\* C19: the list returned depends only on biome, time of day, weather code,
\* wind speed and the outcomes of the three draws: it is the list that
\* getSoundLayers gives for any humidity and any random numbers with the
\* same three outcomes.
C19_OutputDependsOnInputsAndDraws ==
  [][ComposeSoundscape =>
       \A humidity \in HumidityArgs,
          birdRandom \in RandomDraws, cricketRandom \in RandomDraws,
          frogRandom \in RandomDraws :
         (/\ shouldIncludeBirds(birdRandom) = composer'.includeBirds
          /\ shouldIncludeCrickets(cricketRandom) = composer'.includeCrickets
          /\ shouldIncludeFrogs(frogRandom) = composer'.includeFrogs) =>
           composer'.layers =
             getSoundLayers(composer.biome, composer.timeOfDay,
                            composer.weatherCode, composer.windSpeedKph,
                            humidity, birdRandom, cricketRandom,
                            frogRandom)]_vars

\* C19 witness: a call for the lake at night whose frog draw succeeded and
\* whose cricket draw failed returned the frogs.
C19_Witness ==
  /\ composer.called /\ composer.biome = "lake"
  /\ composer.timeOfDay = "night"
  /\ composer.includeFrogs /\ ~composer.includeCrickets
  /\ Chose("frogs_close", "cicada_heavy")

\* C20: every layer returned has a volume above 0 and at most 1.
C20_VolumesInRange ==
  composer.called =>
    \A i \in DOMAIN composer.layers :
      composer.layers[i].volume > 0 /\ composer.layers[i].volume <= 1000000

\* C20 witness: violent showers (code 82, rain 1.0) over the city played the
\* rain blend at its cap of 0.75.
C20_Witness ==
  /\ composer.called /\ composer.biome = "city" /\ composer.weatherCode = 82
  /\ \E i \in DOMAIN composer.layers :
       /\ composer.layers[i].soundId = "rain-wind-city-traffic_medium_far"
       /\ composer.layers[i].volume = 750000

\* The sound ids of the bird, cricket and frog layers of soundMapping.ts.
BirdSoundIds ==
  {"birds-forest_light_far", "wind-light_birds_medium", "birds_far",
   "wind-leaves_rustling-light_birds_light",
   "wind-leaves_rustling-light_birds_light-2", "wind_coastal_birds",
   "desert-birds_bugs_light"}
CricketSoundIds == {"cicada_heavy", "desert-cricket_heavy_close"}
FrogSoundIds == {"frogs_close"}

C22_DocumentedWindVolumes ==
  WindVolumeReturned =>
    /\ utility.arg = 50 => utility.returned = 200
    /\ utility.arg = 200 => utility.returned = 500
    /\ utility.arg = 450 => utility.returned = 1000

\* C23: mapWeatherToIntensity returns the values of its documentation: rain
\* 0.3 and thunder 0 for code 61, rain 0.7 and thunder 0.8 for code 95.
C23_DocumentedIntensities ==
  IntensityReturned =>
    /\ utility.arg = 61 =>
         utility.returned.rain = 300 /\ utility.returned.thunder = 0
    /\ utility.arg = 95 =>
         utility.returned.rain = 700 /\ utility.returned.thunder = 800

(***************************************************************************)
(* Properties of initialization and of the values it applies (Spec)        *)
(***************************************************************************)
\* C24: at most one controller.initialize() call is under way at any time,
\* one is under way exactly while the promise of initialize() is pending
\* and held in initializationPromiseRef, and while it is pending no step
\* calls controller.initialize() again or replaces the promise: a further
\* initialize() call is handed the promise that is pending.
C24_SingleFlight ==
  /\ [](/\ ctlInitializing <= 1
        /\ ctlInitializing = 1 <=> initPromise = "pending"
        /\ initPromise = "pending" <=> initializationPromiseRef # NULL
        /\ joinedPending => initPromise = "pending")
  /\ [][initPromise = "pending" =>
          /\ ctlInitializing' <= ctlInitializing
          /\ initializationPromiseRef' \in {initializationPromiseRef, NULL}
          /\ initPromise' = "pending" => initClosure' = initClosure]_vars

\* C24 witness: a second handleStart was given the pending promise while the
\* one controller.initialize() call was still under way.
C24_Witness ==
  initPromise = "pending" /\ joinedPending /\ ctlInitializing = 1

\* C28: whenever the provider is ready, the master volume last handed to
\* the controller is the volume the provider stores.
C28_MasterVolumeFollowsVolume ==
  isReady => masterVolume = volume

\* C29: whenever the provider is ready and in inside mode, the cutoff
\* frequency of the controller's low-pass filter is the provider's
\* insideFilterFrequency.
C29_CutoffFollowsFrequency ==
  (isReady /\ isInsideMode) => ctlFilterFrequency = insideFilterFrequency

(***************************************************************************)
(* The sound ids getSoundLayers returns (SpecComposer)                     *)
(***************************************************************************)
\* C26: every sound id of a returned list is a key of SOUND_PATH_MAP, and
\* getAudioPath gives its path without throwing 'Unknown sound ID'.
C26_ComposerIdsRegistered ==
  composer.called =>
    \A i \in DOMAIN composer.layers :
      /\ soundExists(composer.layers[i].soundId)
      /\ getAudioPath(composer.layers[i].soundId).thrown = NULL

\* C26 witness: a slight thunderstorm (code 95, thunder 0.6) over the forest
\* returned thunder_light_far_rain_medium, which resolves to a file under
\* thunder/.
C26_Witness ==
  /\ composer.called /\ composer.biome = "forest"
  /\ composer.weatherCode = 95
  /\ "thunder_light_far_rain_medium" \in LayerIds
  /\ getAudioPath("thunder_light_far_rain_medium").directory = "thunder"
  /\ getAudioPath("thunder_light_far_rain_light").thrown # NULL

\* C27: the sound ids of a returned list are pairwise distinct; the beach
\* has exactly one of wind_coastal_birds and wind_coastal_medium_far, the
\* lake at most one of frogs_close and cicada_heavy.
C27_SoundIdsDistinct ==
  composer.called =>
    /\ \A i, j \in DOMAIN composer.layers :
         composer.layers[i].soundId = composer.layers[j].soundId => i = j
    /\ composer.biome = "beach" =>
         ("wind_coastal_birds" \in LayerIds)
           # ("wind_coastal_medium_far" \in LayerIds)
    /\ composer.biome = "lake" =>
         ~("frogs_close" \in LayerIds /\ "cicada_heavy" \in LayerIds)

\* C27 witness: a call for the lake at night whose frog and cricket draws
\* both succeeded returned the frogs and no cicadas.
C27_Witness ==
  /\ composer.called /\ composer.biome = "lake"
  /\ composer.timeOfDay = "night"
  /\ composer.includeFrogs /\ composer.includeCrickets
  /\ Chose("frogs_close", "cicada_heavy")
  /\ Cardinality(LayerIds) = Len(composer.layers)

(***************************************************************************)
(* Properties of the page (SpecPage, SpecPageFair)                         *)
(***************************************************************************)
\* C30: the response of a request never replaces weather data that came
\* from a search issued after that request.
C30_OlderResponseNeverOverwrites ==
  [][(weatherData # NoWeatherData /\ weatherData' # NoWeatherData
        /\ weatherData.kind = "search") =>
       weatherData'.request >= weatherData.request]_vars

\* Every weather data a response can bring.
WeatherDatas == {ResponseOf(r) : r \in Requests}

\* C25: a weather data is handed to the controller only in a step that
\* starts with the provider ready, and every weather data the page holds
\* while the provider is ready is eventually the one last handed to the
\* controller, whether it arrived before or after isReady became true.
C25_SoundscapeFollowsWeather ==
  /\ [][forwardedWeather' # forwardedWeather =>
          isReady /\ forwardedWeather' = weatherData]_vars
  /\ \A data \in WeatherDatas :
       (weatherData = data /\ isReady) ~> (forwardedWeather = data)

\* C25 witness: weather data arrived and the effects ran while the
\* initialization was pending; the provider has now become ready and the
\* weather data has not been handed to the controller yet.
C25_Witness ==
  /\ isReady /\ weatherData # NoWeatherData
  /\ effectDeps = [weatherData |-> weatherData, isReady |-> FALSE]
  /\ forwardedWeather = NoWeatherData

====
